---------------------------- MODULE Spec2Model ----------------------------
(***************************************************************************)
(* TDnet scraper: the pagination crawl (tdnet/services.py), the page       *)
(* extractors (tdnet/parsing.py) and the record / result models            *)
(* (tdnet/models.py).                                                       *)
(*                                                                          *)
(* Python strings are sequences of one-character strings, so that          *)
(* startswith / endswith / in / lower / sorted() are computed, not assumed.*)
(***************************************************************************)
EXTENDS Integers, Sequences, FiniteSets, TLC

VARIABLES pc, target_date, current_page, all_found_urls, all_structured_data,
          fetched, result, site, call, ret, log, stdout

vars == <<pc, target_date, current_page, all_found_urls, all_structured_data,
          fetched, result, site, call, ret, log, stdout>>

(***************************************************************************)
(* Bounds of the model.                                                     *)
(***************************************************************************)
\* the site serves at most MaxPages pages to one crawl
MaxPages == 3
\* the pages served to one crawl hold at most MaxRows table rows in total
MaxRows == 2
\* a well-formed listing holds at most MaxListingRows rows in total
MaxListingRows == 3
\* the site with rows that carry a date of their own holds at most MaxDatedRows rows
MaxDatedRows == 2
\* the site a command-line run meets holds at most MaxCliRows rows in total
MaxCliRows == 1
\* a page handed to an extractor holds at most MaxPageRows rows
MaxPageRows == 3
\* a page handed to has_next_page holds at most MaxPagers pager-R elements
MaxPagers == 2
\* a Result is constructed from at most MaxResultItems disclosures and as many URLs
MaxResultItems == 2

(***************************************************************************)
(* Characters and strings.                                                  *)
(***************************************************************************)
\* the characters used, in code point order (Python compares str by code point)
Ascii ==
  <<"'", "(", ")", "-", ".", "/",
    "0", "1", "2", "3", "4", "5", "6", "7", "8", "9", ":",
    "A", "B", "C", "D", "E", "F", "G", "H", "I", "J", "K", "L", "M",
    "N", "O", "P", "Q", "R", "S", "T", "U", "V", "W", "X", "Y", "Z", "_",
    "a", "b", "c", "d", "e", "f", "g", "h", "i", "j", "k", "l", "m",
    "n", "o", "p", "q", "r", "s", "t", "u", "v", "w", "x", "y", "z">>

\* ord(c), up to the gaps between the characters used
OrdOf == [c \in {Ascii[i] : i \in DOMAIN Ascii} |-> CHOOSE i \in DOMAIN Ascii : Ascii[i] = c]

Ord(c) == OrdOf[c]

Digits == <<"0", "1", "2", "3", "4", "5", "6", "7", "8", "9">>

IsDigit(c) == Ord(c) >= Ord("0") /\ Ord(c) <= Ord("9")

IsUpper(c) == Ord(c) >= Ord("A") /\ Ord(c) <= Ord("Z")

\* str.lower() on one character
LowerChar(c) == IF IsUpper(c) THEN Ascii[Ord(c) - Ord("A") + Ord("a")] ELSE c

\* str.lower()
Lower(s) == [i \in DOMAIN s |-> LowerChar(s[i])]

\* str.startswith
StartsWith(s, p) == Len(s) >= Len(p) /\ SubSeq(s, 1, Len(p)) = p

\* str.endswith
EndsWith(s, p) == Len(s) >= Len(p) /\ SubSeq(s, Len(s) - Len(p) + 1, Len(s)) = p

\* p in s
Contains(s, p) ==
  \E i \in 1..(Len(s) - Len(p) + 1) : SubSeq(s, i, i + Len(p) - 1) = p

\* s < t for Python str: the first differing code point decides, a proper prefix is smaller
StrLess(s, t) ==
  LET n     == IF Len(s) < Len(t) THEN Len(s) ELSE Len(t)
      diffs == {i \in 1..n : s[i] # t[i]}
  IN  IF diffs = {} THEN Len(s) < Len(t)
      ELSE LET k == CHOOSE i \in diffs : \A j \in diffs : i <= j
           IN  Ord(s[k]) < Ord(t[k])

RECURSIVE Sorted(_)
\* sorted(list(S)) for a set S of strings
Sorted(S) ==
  IF S = {} THEN <<>>
  ELSE LET m == CHOOSE x \in S : \A y \in S \ {x} : StrLess(x, y)
       IN  <<m>> \o Sorted(S \ {m})

\* set(seq)
ToSet(seq) == {seq[i] : i \in DOMAIN seq}

\* f"{n:0{w}d}" for n >= 0: at least w digits
RECURSIVE ZeroPad(_, _)
ZeroPad(n, w) ==
  IF n < 10
  THEN [i \in 1..(w - 1) |-> "0"] \o <<Digits[n + 1]>>
  ELSE ZeroPad(n \div 10, IF w > 0 THEN w - 1 ELSE 0) \o <<Digits[(n % 10) + 1]>>

\* the absent value (Python None / a missing attribute)
None == <<"None">>

(***************************************************************************)
(* URLs: urllib.parse.urljoin and pydantic's HttpUrl.                       *)
(***************************************************************************)
BASE_URL ==
  <<"h", "t", "t", "p", "s", ":", "/", "/", "w", "w", "w", ".", "r", "e", "l",
    "e", "a", "s", "e", ".", "t", "d", "n", "e", "t", ".", "i", "n", "f", "o">>

HTTPS == <<"h", "t", "t", "p", "s", ":", "/", "/">>

HTTP == <<"h", "t", "t", "p", ":", "/", "/">>

EXT_PDF == <<".", "p", "d", "f">>

EXT_ZIP == <<".", "z", "i", "p">>

\* urljoin(BASE_URL, href): an href with its own scheme is kept as written, a
\* rooted path replaces the (empty) path of BASE_URL, a relative one is put under "/"
urljoin(base, href) ==
  IF Contains(href, <<":", "/", "/">>) THEN href
  ELSE IF href = <<>> THEN base
  ELSE IF StartsWith(href, <<"/">>) THEN base \o href
  ELSE base \o <<"/">> \o href

\* the part of an absolute URL after "scheme://"
AfterScheme(u) ==
  IF StartsWith(u, HTTPS) THEN SubSeq(u, Len(HTTPS) + 1, Len(u))
  ELSE SubSeq(u, Len(HTTP) + 1, Len(u))

\* length of the host: up to the first "/" after the scheme
HostLen(rest) ==
  IF \E i \in DOMAIN rest : rest[i] = "/"
  THEN (CHOOSE i \in DOMAIN rest :
           rest[i] = "/" /\ \A j \in 1..(i - 1) : rest[j] # "/") - 1
  ELSE Len(rest)

\* HttpUrl accepts http and https URLs with a host
HttpUrlValid(u) ==
  /\ StartsWith(u, HTTPS) \/ StartsWith(u, HTTP)
  /\ HostLen(AfterScheme(u)) > 0

\* str(HttpUrl(u)): the host is lower-cased, an empty path becomes "/"
HttpUrlStr(u) ==
  LET scheme == IF StartsWith(u, HTTPS) THEN HTTPS ELSE HTTP
      rest   == AfterScheme(u)
      n      == HostLen(rest)
      path   == SubSeq(rest, n + 1, Len(rest))
  IN  scheme \o Lower(SubSeq(rest, 1, n)) \o (IF path = <<>> THEN <<"/">> ELSE path)

(***************************************************************************)
(* Record model: TdnetDisclosure.                                           *)
(***************************************************************************)
F_time == <<"t", "i", "m", "e">>

F_code == <<"c", "o", "d", "e">>

F_name == <<"n", "a", "m", "e">>

F_title == <<"t", "i", "t", "l", "e">>

F_pdf_url == <<"p", "d", "f", "_", "u", "r", "l">>

F_xbrl_available == <<"x", "b", "r", "l", "_", "a", "v", "a", "i", "l", "a", "b", "l", "e">>

F_xbrl_url == <<"x", "b", "r", "l", "_", "u", "r", "l">>

F_place == <<"p", "l", "a", "c", "e">>

F_history == <<"h", "i", "s", "t", "o", "r", "y">>

F_disclosure_date == <<"d", "i", "s", "c", "l", "o", "s", "u", "r", "e", "_", "d", "a", "t", "e">>

\* the declared attributes of TdnetDisclosure
DisclosureFields ==
  {F_time, F_code, F_name, F_title, F_pdf_url, F_xbrl_available, F_xbrl_url,
   F_place, F_history, F_disclosure_date}

\* the attributes without a default
RequiredFields ==
  {F_time, F_code, F_name, F_title, F_pdf_url, F_place, F_disclosure_date}

\* DisclosureTime: ^\d{1,2}:\d{2}$
DisclosureTime(v) ==
  \/ Len(v) = 4 /\ IsDigit(v[1]) /\ v[2] = ":" /\ IsDigit(v[3]) /\ IsDigit(v[4])
  \/ /\ Len(v) = 5 /\ IsDigit(v[1]) /\ IsDigit(v[2]) /\ v[3] = ":"
     /\ IsDigit(v[4]) /\ IsDigit(v[5])

\* CompanyCode: ^[0-9A-Z]+$
CompanyCode(v) ==
  Len(v) >= 1 /\ \A i \in DOMAIN v : IsDigit(v[i]) \/ IsUpper(v[i])

\* ExchangeCode: min_length=1, max_length=10
ExchangeCode(v) == Len(v) >= 1 /\ Len(v) <= 10

\* a validator that only misses the URL of an available archive
validate_xbrl_only_missing_url(xbrl_available, xbrl_url) ==
  ~(xbrl_available /\ xbrl_url = None)

\* validate_xbrl_consistency
validate_xbrl_consistency(xbrl_available, xbrl_url) ==
  /\ ~(xbrl_available /\ xbrl_url = None)
  /\ ~(~xbrl_available /\ xbrl_url # None)

\* the value of a keyword argument, or the field's default
Arg(kw, k, default) == IF k \in DOMAIN kw THEN kw[k] ELSE default

\* does TdnetDisclosure(**kw) validate?
\* a validation that lets keys pass that are no field (extra = 'ignore')
DisclosureValidIgnoreExtra(kw) ==
  /\ RequiredFields \subseteq DOMAIN kw
  /\ DisclosureTime(kw[F_time])
  /\ CompanyCode(kw[F_code])
  /\ Len(kw[F_name]) >= 1
  /\ Len(kw[F_title]) >= 1
  /\ HttpUrlValid(kw[F_pdf_url])
  /\ Arg(kw, F_xbrl_url, None) # None => HttpUrlValid(kw[F_xbrl_url])
  /\ ExchangeCode(kw[F_place])
  /\ validate_xbrl_consistency(Arg(kw, F_xbrl_available, FALSE),
                               Arg(kw, F_xbrl_url, None))

\* a validation without the pattern of the time field
DisclosureValidAnyTime(kw) ==
  /\ DOMAIN kw \subseteq DisclosureFields
  /\ RequiredFields \subseteq DOMAIN kw
  /\ CompanyCode(kw[F_code])
  /\ Len(kw[F_name]) >= 1
  /\ Len(kw[F_title]) >= 1
  /\ HttpUrlValid(kw[F_pdf_url])
  /\ Arg(kw, F_xbrl_url, None) # None => HttpUrlValid(kw[F_xbrl_url])
  /\ ExchangeCode(kw[F_place])
  /\ validate_xbrl_consistency(Arg(kw, F_xbrl_available, FALSE),
                               Arg(kw, F_xbrl_url, None))

DisclosureValid(kw) ==
  /\ DOMAIN kw \subseteq DisclosureFields
  /\ RequiredFields \subseteq DOMAIN kw
  /\ DisclosureTime(kw[F_time])
  /\ CompanyCode(kw[F_code])
  /\ Len(kw[F_name]) >= 1
  /\ Len(kw[F_title]) >= 1
  /\ HttpUrlValid(kw[F_pdf_url])
  /\ Arg(kw, F_xbrl_url, None) # None => HttpUrlValid(kw[F_xbrl_url])
  /\ ExchangeCode(kw[F_place])
  /\ validate_xbrl_consistency(Arg(kw, F_xbrl_available, FALSE),
                               Arg(kw, F_xbrl_url, None))

\* the instance TdnetDisclosure(**kw) of a valid kw
TdnetDisclosure(kw) ==
  [time            |-> kw[F_time],
   code            |-> kw[F_code],
   name            |-> kw[F_name],
   title           |-> kw[F_title],
   pdf_url         |-> HttpUrlStr(kw[F_pdf_url]),
   xbrl_available  |-> Arg(kw, F_xbrl_available, FALSE),
   xbrl_url        |-> IF Arg(kw, F_xbrl_url, None) # None
                       THEN HttpUrlStr(kw[F_xbrl_url]) ELSE None,
   place           |-> kw[F_place],
   history         |-> Arg(kw, F_history, <<>>),
   disclosure_date |-> kw[F_disclosure_date]]

\* str(date): YYYY-MM-DD
DateIso(d) ==
  ZeroPad(d.year, 4) \o <<"-">> \o ZeroPad(d.month, 2) \o <<"-">> \o ZeroPad(d.day, 2)

\* date.strftime("%Y%m%d")
DateCompact(d) == ZeroPad(d.year, 4) \o ZeroPad(d.month, 2) \o ZeroPad(d.day, 2)

\* an id that leaves the time out
DisclosureIdWithoutTime(d) ==
  <<"sha256">> \o d.code \o <<"_">> \o DateIso(d.disclosure_date) \o <<"_">> \o d.pdf_url

\* TdnetDisclosure.id: the digest of code_date_url_time; the digest is kept
\* symbolic (equal inputs give equal ids, different inputs different ids)
DisclosureId(d) ==
  <<"sha256">> \o d.code \o <<"_">> \o DateIso(d.disclosure_date) \o <<"_">>
               \o d.pdf_url \o <<"_">> \o d.time

(***************************************************************************)
(* Result model: TdnetScrapingResult.                                       *)
(***************************************************************************)
\* a validator without the check for duplicate URLs
validate_consistency_without_unique(total_disclosures, disclosures, pdf_urls) ==
  /\ total_disclosures = Len(disclosures)
  /\ {disclosures[i].pdf_url : i \in DOMAIN disclosures} \subseteq ToSet(pdf_urls)

\* validate_consistency, on the validated fields
validate_consistency(total_disclosures, disclosures, pdf_urls) ==
  /\ total_disclosures = Len(disclosures)
  /\ Len(pdf_urls) = Cardinality(ToSet(pdf_urls))
  /\ {disclosures[i].pdf_url : i \in DOMAIN disclosures} \subseteq ToSet(pdf_urls)

\* does TdnetScrapingResult(...) validate? raw_urls are the strings handed in
ResultValid(total_disclosures, disclosures, raw_urls) ==
  /\ total_disclosures >= 0
  /\ \A i \in DOMAIN raw_urls : HttpUrlValid(raw_urls[i])
  /\ validate_consistency(total_disclosures, disclosures,
                          [i \in DOMAIN raw_urls |-> HttpUrlStr(raw_urls[i])])

\* the instance TdnetScrapingResult(...) of valid arguments
TdnetScrapingResult(scraping_date, total_disclosures, disclosures, raw_urls) ==
  [status            |-> "returned",
   scraping_date     |-> scraping_date,
   total_disclosures |-> total_disclosures,
   disclosures       |-> disclosures,
   pdf_urls          |-> [i \in DOMAIN raw_urls |-> HttpUrlStr(raw_urls[i])]]

\* unique_disclosure_count
unique_disclosure_count(r) ==
  Cardinality({DisclosureId(r.disclosures[i]) : i \in DOMAIN r.disclosures})

\* has_duplicate_ids
has_duplicate_ids(r) ==
  Len(r.disclosures) # Cardinality({DisclosureId(r.disclosures[i]) : i \in DOMAIN r.disclosures})

(***************************************************************************)
(* Page extractor (tdnet/parsing.py).                                       *)
(*                                                                          *)
(* A parsed page (soup) is                                                  *)
(*   [marker    : does the "no matching data" string occur in the page,     *)
(*    has_table : is there a table#main-list-table,                         *)
(*    rows      : its <tr> rows, each named by its key in RowCells,          *)
(*    pagers    : its div.pager-R elements in document order, each          *)
(*                [onclick : its onclick attribute, None when it has none]] *)
(* the cells of a row are the sequence of its <td> elements, a cell is      *)
(*   [class : its classes in declared order, links : its <a> elements in    *)
(*    document order as [href : None or a string, text], text : its text]   *)
(***************************************************************************)
\* a logging call: the level and the message, without the values formatted in
Msg(level, text) == [level |-> level, text |-> text]

KJ == <<"k", "j">>

KJ_TITLE == <<"k", "j", "T", "i", "t", "l", "e">>

KJ_XBRL == <<"k", "j", "X", "b", "r", "l">>

KJ_HISTROY == <<"k", "j", "H", "i", "s", "t", "r", "o", "y">>

KJ_COMPANY == <<"k", "j", "C", "o", "m", "p", "a", "n", "y">>

Cell(class, links, text) == [class |-> class, links |-> links, text |-> text]

Link(href, text) == [href |-> href, text |-> text]

KJ_TIME == <<"k", "j", "T", "i", "m", "e">>

KJ_CODE == <<"k", "j", "C", "o", "d", "e">>

KJ_NAME == <<"k", "j", "N", "a", "m", "e">>

KJ_PLACE == <<"k", "j", "P", "l", "a", "c", "e">>

HREF_A == <<"/", "a", ".", "p", "d", "f">>

HREF_B == <<"/", "b", ".", "p", "d", "f">>

HREF_B_ZIP == <<"/", "b", ".", "z", "i", "p">>

\* the same document as HREF_B, written with an absolute address
HREF_B_ABS == <<"h", "t", "t", "p", "s", ":", "/", "/", "W", "W", "W", ".", "R", "E", "L", "E", "A", "S", "E", ".", "T", "D", "N", "E", "T", ".", "I", "N", "F", "O", "/", "b", ".", "p", "d", "f">>

HREF_C == <<"/", "c", ".", "p", "d", "f">>

\* a third document, linked by an absolute address
HREF_C_ABS == <<"h", "t", "t", "p", "s", ":", "/", "/", "W", "W", "W", ".", "R", "E", "L", "E", "A", "S", "E", ".", "T", "D", "N", "E", "T", ".", "I", "N", "F", "O", "/", "c", ".", "p", "d", "f">>

HREF_FTP == <<"f", "t", "p", ":", "/", "/", "x", "/", "c", ".", "p", "d", "f">>

CellTime == Cell(<<KJ_TIME>>, <<>>, <<"1", "5", ":", "3", "0">>)

CellBadTime == Cell(<<KJ_TIME>>, <<>>, <<"9", "a", "m">>)

CellCode == Cell(<<KJ_CODE>>, <<>>, <<"1", "2", "3", "4", "5">>)

CellCompany == Cell(<<KJ_COMPANY>>, <<>>, <<"N">>)

CellName == Cell(<<KJ_NAME>>, <<>>, <<"N">>)

CellTitle(href) == Cell(<<KJ_TITLE>>, <<Link(href, <<"T">>)>>, <<"T">>)

CellNoXbrl == Cell(<<KJ_XBRL>>, <<>>, <<>>)

CellXbrl == Cell(<<KJ_XBRL>>, <<Link(HREF_B_ZIP, <<"X">>)>>, <<"X">>)

CellPlace == Cell(<<KJ_PLACE>>, <<>>, <<"T">>)

CellHistory == Cell(<<KJ_HISTROY>>, <<>>, <<>>)

\* a row of the listing as the site lays it out
RowA == <<CellTime, CellCode, CellCompany, CellTitle(HREF_A), CellNoXbrl, CellPlace, CellHistory>>

\* the same layout, with an XBRL archive
RowB == <<CellTime, CellCode, CellName, CellTitle(HREF_B), CellXbrl, CellPlace, CellHistory>>

\* the document of RowB linked by its absolute address
RowBAbs == <<CellTime, CellCode, CellCompany, CellTitle(HREF_B_ABS), CellNoXbrl, CellPlace, CellHistory>>

\* the title cell is the third cell, not the fourth
RowShifted == <<CellTime, CellCode, CellTitle(HREF_A), CellCompany, CellNoXbrl, CellPlace, CellHistory>>

\* a malformed row: the time cell does not hold a time
RowBadTime == <<CellBadTime, CellCode, CellCompany, CellTitle(HREF_C), CellNoXbrl, CellPlace, CellHistory>>

\* the document is linked with a scheme HttpUrl rejects
RowFtp == <<CellTime, CellCode, CellCompany, CellTitle(HREF_FTP), CellNoXbrl, CellPlace, CellHistory>>

\* the site's layout, the document linked by its absolute address
RowCAbs == <<CellTime, CellCode, CellCompany, CellTitle(HREF_C_ABS), CellNoXbrl, CellPlace, CellHistory>>

\* the title cell holds text only: no link to a document
CellTitleNoLink == Cell(<<KJ_TITLE>>, <<>>, <<"T">>)

\* a row without a document
RowNoPdf == <<CellTime, CellCode, CellCompany, CellTitleNoLink, CellNoXbrl, CellPlace, CellHistory>>

\* a row of five cells
RowShort == <<CellTime, CellCode, CellCompany, CellTitle(HREF_A), CellPlace>>

\* a header row: <tr> with <th> cells only
RowHeader == <<>>

HREF_A_ZIP == <<"/", "a", ".", "z", "i", "p">>

\* a title cell that links the document and an archive
CellTitleZip == Cell(<<KJ_TITLE>>, <<Link(HREF_A, <<"T">>), Link(HREF_A_ZIP, <<"Z">>)>>, <<"T", "Z">>)

\* the title cell links an archive, the kjXbrl cell after it links nothing
RowTitleZip == <<CellTime, CellCode, CellCompany, CellTitleZip, CellNoXbrl, CellPlace, CellHistory>>

\* the kjXbrl cell links nothing, the title cell after it links an archive
RowXbrlFirst == <<CellTime, CellCode, CellCompany, CellNoXbrl, CellTitleZip, CellPlace, CellHistory>>

\* the kjXbrl cell links an archive, the title cell after it links none
RowZipFirst == <<CellTime, CellCode, CellCompany, CellXbrl, CellTitle(HREF_B), CellPlace, CellHistory>>

\* the title cell and the kjXbrl cell after it link different archives
RowBothZip == <<CellTime, CellCode, CellCompany, CellTitleZip, CellXbrl, CellPlace, CellHistory>>

\* a title cell with an <a> without href, then two documents
CellTitleTwoPdf ==
  Cell(<<KJ_TITLE>>,
       <<Link(None, <<"N">>), Link(HREF_A, <<"T">>), Link(HREF_C, <<"U">>)>>,
       <<"N", "T", "U">>)

\* a title cell with an archive, two documents, and another archive
CellTitleZipPdfZip ==
  Cell(<<KJ_TITLE>>,
       <<Link(HREF_A_ZIP, <<"Z">>), Link(HREF_A, <<"T">>), Link(HREF_C, <<"U">>),
         Link(HREF_B_ZIP, <<"Y">>)>>,
       <<"Z", "T", "U", "Y">>)

\* a title cell that links an archive and no document
CellTitleZipOnly == Cell(<<KJ_TITLE>>, <<Link(HREF_A_ZIP, <<"Z">>)>>, <<"Z">>)

\* six-cell rows (no kjXbrl cell) around these title cells
RowTwoPdf == <<CellTime, CellCode, CellCompany, CellTitleTwoPdf, CellPlace, CellHistory>>

RowZipPdfZip == <<CellTime, CellCode, CellCompany, CellTitleZipPdfZip, CellPlace, CellHistory>>

RowPdfZip == <<CellTime, CellCode, CellCompany, CellTitleZip, CellPlace, CellHistory>>

RowZipOnly == <<CellTime, CellCode, CellCompany, CellTitleZipOnly, CellPlace, CellHistory>>

\* a cell of three classes: one without the prefix, then kjName, then kjCode
CellOtherNameCode == Cell(<<(<<"x">>), KJ_NAME, KJ_CODE>>, <<>>, <<"N">>)

\* a cell of classes kjName and kjTitle that links a document
CellNameTitle == Cell(<<KJ_NAME, KJ_TITLE>>, <<Link(HREF_C, <<"U">>)>>, <<"N">>)

\* a cell of classes kjName and kjCode holding a code
CellNameCode == Cell(<<KJ_NAME, KJ_CODE>>, <<>>, <<"1", "2", "3", "4", "5">>)

RowMultiClass == <<CellTime, CellCode, CellOtherNameCode, CellTitle(HREF_A), CellNoXbrl, CellPlace, CellHistory>>

RowNameTitle == <<CellTime, CellCode, CellNameTitle, CellTitle(HREF_A), CellNoXbrl, CellPlace, CellHistory>>

\* the code stands only in a cell whose first kj class is kjName
RowCodeSecond == <<CellTime, CellNameCode, CellTitle(HREF_A), CellNoXbrl, CellPlace, CellHistory>>

CellBadCode == Cell(<<KJ_CODE>>, <<>>, <<"1", "2", "-", "a">>)

CellEmptyCompany == Cell(<<KJ_COMPANY>>, <<>>, <<>>)

\* a title cell whose document link has no text
CellEmptyTitle == Cell(<<KJ_TITLE>>, <<Link(HREF_C, <<>>)>>, <<>>)

RowBadCode == <<CellTime, CellBadCode, CellCompany, CellTitle(HREF_C), CellNoXbrl, CellPlace, CellHistory>>

RowEmptyName == <<CellTime, CellCode, CellEmptyCompany, CellTitle(HREF_C), CellNoXbrl, CellPlace, CellHistory>>

RowEmptyTitle == <<CellTime, CellCode, CellCompany, CellEmptyTitle, CellNoXbrl, CellPlace, CellHistory>>

\* six cells, none tagged kjPlace
RowNoPlace == <<CellTime, CellCode, CellCompany, CellTitle(HREF_C), CellNoXbrl, CellHistory>>

\* "<table><tr><td>incomplete": one cell without class
RowIncomplete == <<Cell(<<>>, <<>>, <<"i", "n", "c", "o", "m", "p", "l", "e", "t", "e">>)>>

\* the fourth cell has classes kjName and kjTitle
RowTitleSecondClass == <<CellTime, CellCode, CellCompany, CellNameTitle, CellNoXbrl, CellPlace, CellHistory>>

KJ_DISCLOSURE_DATE == <<"k", "j", "D", "i", "s", "c", "l", "o", "s", "u", "r", "e", "_", "d", "a", "t", "e">>

\* a cell tagged kjDisclosure_date holding another day
CellDate == Cell(<<KJ_DISCLOSURE_DATE>>, <<>>, <<"2", "0", "0", "0", "-", "0", "1", "-", "0", "1">>)

\* the seven cells of the listing and a cell tagged kjDisclosure_date
RowDated == <<CellTime, CellCode, CellCompany, CellTitle(HREF_C), CellNoXbrl, CellPlace, CellHistory, CellDate>>

\* a cell tagged kjFoo
CellFoo == Cell(<<(<<"k", "j", "F", "o", "o">>)>>, <<>>, <<"x">>)

\* a cell whose class is the bare prefix
CellBareKj == Cell(<<KJ>>, <<>>, <<"x">>)

\* the seven cells of row A and a cell tagged kjFoo
RowUnknownTag == <<CellTime, CellCode, CellCompany, CellTitle(HREF_A), CellNoXbrl, CellPlace, CellHistory, CellFoo>>

\* the seven cells of row A after a cell of class kj
RowBareKj == <<CellBareKj, CellTime, CellCode, CellCompany, CellTitle(HREF_A), CellNoXbrl, CellPlace, CellHistory>>

\* the rows a page can hold, by name
RowCells ==
  [A        |-> RowA,
   B        |-> RowB,
   BAbs     |-> RowBAbs,
   Shifted  |-> RowShifted,
   BadTime  |-> RowBadTime,
   Ftp      |-> RowFtp,
   Header   |-> RowHeader,
   CAbs     |-> RowCAbs,
   NoPdf    |-> RowNoPdf,
   Short    |-> RowShort,
   TitleZip |-> RowTitleZip,
   XbrlFirst |-> RowXbrlFirst,
   ZipFirst |-> RowZipFirst,
   BothZip  |-> RowBothZip,
   TwoPdf   |-> RowTwoPdf,
   ZipPdfZip |-> RowZipPdfZip,
   PdfZip   |-> RowPdfZip,
   ZipOnly  |-> RowZipOnly,
   MultiClass |-> RowMultiClass,
   NameTitle |-> RowNameTitle,
   CodeSecond |-> RowCodeSecond,
   BadCode  |-> RowBadCode,
   EmptyName |-> RowEmptyName,
   EmptyTitle |-> RowEmptyTitle,
   NoPlace  |-> RowNoPlace,
   Incomplete |-> RowIncomplete,
   TitleSecondClass |-> RowTitleSecondClass,
   Dated    |-> RowDated,
   UnknownTag |-> RowUnknownTag,
   BareKj   |-> RowBareKj]

\* the rows the site serves to a crawl
Rows == {"A", "B", "BAbs", "Shifted", "BadTime", "Ftp", "Header"}

\* row_data[k] = v
Put(row_data, k, v) ==
  [x \in (DOMAIN row_data) \cup {k} |-> IF x = k THEN v ELSE row_data[x]]

\* link_tag.get('href', '')
HrefOrEmpty(link_tag) == IF link_tag.href = None THEN <<>> ELSE link_tag.href

\* an iteration in which every ".pdf" link takes the title and the address
TitleLinkStepLastPdf(row_data, link_tag) ==
  LET href == IF link_tag.href = None THEN <<>> ELSE link_tag.href
  IN  IF EndsWith(href, EXT_PDF)
      THEN Put(Put(row_data, F_title, link_tag.text),
               F_pdf_url, urljoin(BASE_URL, href))
      ELSE IF EndsWith(href, EXT_ZIP)
      THEN Put(Put(row_data, F_xbrl_url, urljoin(BASE_URL, href)),
               F_xbrl_available, TRUE)
      ELSE row_data

\* one iteration of "for link_tag in link_tags" of a kjTitle cell
TitleLinkStep(row_data, link_tag) ==
  LET href == HrefOrEmpty(link_tag)
  IN  IF EndsWith(href, EXT_PDF) /\ F_pdf_url \notin DOMAIN row_data
      THEN Put(Put(row_data, F_title, link_tag.text),
               F_pdf_url, urljoin(BASE_URL, href))
      ELSE IF EndsWith(href, EXT_ZIP)
      THEN Put(Put(row_data, F_xbrl_url, urljoin(BASE_URL, href)),
               F_xbrl_available, TRUE)
      ELSE row_data

RECURSIVE TitleLinks(_, _)
\* "for link_tag in link_tags"
TitleLinks(row_data, link_tags) ==
  IF link_tags = <<>> THEN row_data
  ELSE TitleLinks(TitleLinkStep(row_data, Head(link_tags)), Tail(link_tags))

\* the kjTitle branch
TitleCell(row_data, cell) ==
  LET rd == TitleLinks(Put(row_data, F_xbrl_available, FALSE), cell.links)
  IN  IF F_title \notin DOMAIN rd THEN Put(rd, F_title, cell.text) ELSE rd

\* the kjXbrl branch: cell.find('a') is the first link of the cell
XbrlCell(row_data, cell) ==
  IF cell.links # <<>> /\ EndsWith(HrefOrEmpty(cell.links[1]), EXT_ZIP)
  THEN Put(Put(row_data, F_xbrl_url, urljoin(BASE_URL, cell.links[1].href)),
           F_xbrl_available, TRUE)
  ELSE Put(row_data, F_xbrl_available, FALSE)

\* the body of "if class_name.startswith('kj')"
TaggedCell(row_data, cell, class_name) ==
  LET field_name == Lower(SubSeq(class_name, 3, Len(class_name)))
  IN  IF class_name = KJ_TITLE THEN TitleCell(row_data, cell)
      ELSE IF class_name = KJ_XBRL THEN XbrlCell(row_data, cell)
      ELSE IF class_name = KJ_HISTROY THEN Put(row_data, F_history, cell.text)
      ELSE IF class_name = KJ_COMPANY THEN Put(row_data, F_name, cell.text)
      ELSE Put(row_data, field_name, cell.text)

\* a class loop without the break: the last kj class acts last
CellStepLastKj(row_data, cell) ==
  LET kjs == {i \in DOMAIN cell.class : StartsWith(cell.class[i], KJ)}
  IN  IF kjs = {} THEN row_data
      ELSE TaggedCell(row_data, cell,
                      cell.class[CHOOSE i \in kjs : \A j \in kjs : i >= j])

\* "for class_name in cell_classes: if startswith('kj'): ...; break"
CellStep(row_data, cell) ==
  LET kjs == {i \in DOMAIN cell.class : StartsWith(cell.class[i], KJ)}
  IN  IF kjs = {} THEN row_data
      ELSE TaggedCell(row_data, cell,
                      cell.class[CHOOSE i \in kjs : \A j \in kjs : i <= j])

RECURSIVE RowData(_, _)
\* "for cell in cells"
RowData(row_data, cells) ==
  IF cells = <<>> THEN row_data
  ELSE RowData(CellStep(row_data, Head(cells)), Tail(cells))

\* a construction that keeps a disclosure_date the cells have set
RowRecordsKeepDate(cells, disclosure_date) ==
  IF Len(cells) < 6 THEN <<>>
  ELSE LET row_data == RowData(<<>>, cells)
       IN  IF /\ F_time \in DOMAIN row_data
              /\ F_code \in DOMAIN row_data
              /\ F_pdf_url \in DOMAIN row_data
           THEN LET kw == IF F_disclosure_date \in DOMAIN row_data THEN row_data
                          ELSE Put(row_data, F_disclosure_date, disclosure_date)
                IN  IF DisclosureValid(kw) THEN <<TdnetDisclosure(kw)>> ELSE <<>>
           ELSE <<>>

\* the records one row adds to structured_data: none or one
RowRecords(cells, disclosure_date) ==
  IF Len(cells) < 6 THEN <<>>
  ELSE LET row_data == RowData(<<>>, cells)
       IN  IF /\ F_time \in DOMAIN row_data
              /\ F_code \in DOMAIN row_data
              /\ F_pdf_url \in DOMAIN row_data
           THEN LET kw == Put(row_data, F_disclosure_date, disclosure_date)
                IN  IF DisclosureValid(kw) THEN <<TdnetDisclosure(kw)>> ELSE <<>>
           ELSE <<>>

RECURSIVE StructuredRowsStopAtFailure(_, _)
\* a loop that a row without a record ends
StructuredRowsStopAtFailure(rows, disclosure_date) ==
  IF rows = <<>> THEN <<>>
  ELSE IF RowRecords(RowCells[Head(rows)], disclosure_date) = <<>> THEN <<>>
  ELSE RowRecords(RowCells[Head(rows)], disclosure_date)
         \o StructuredRowsStopAtFailure(Tail(rows), disclosure_date)

RECURSIVE StructuredRows(_, _)
\* "for row in rows" of extract_structured_data_from_page
StructuredRows(rows, disclosure_date) ==
  IF rows = <<>> THEN <<>>
  ELSE RowRecords(RowCells[Head(rows)], disclosure_date)
         \o StructuredRows(Tail(rows), disclosure_date)

\* an extractor that reads the rows of whatever table the page has
extract_structured_data_from_any_table(soup, disclosure_date) ==
  StructuredRows(soup.rows, disclosure_date)

extract_structured_data_from_page(soup, disclosure_date) ==
  IF ~soup.has_table THEN <<>>
  ELSE StructuredRows(soup.rows, disclosure_date)

\* the warning one row logs: its construction was tried and failed validation
RowWarnings(cells, disclosure_date) ==
  IF Len(cells) < 6 THEN <<>>
  ELSE LET row_data == RowData(<<>>, cells)
       IN  IF /\ F_time \in DOMAIN row_data
              /\ F_code \in DOMAIN row_data
              /\ F_pdf_url \in DOMAIN row_data
              /\ ~DisclosureValid(Put(row_data, F_disclosure_date, disclosure_date))
           THEN <<Msg("WARNING", "Failed to create TdnetDisclosure object")>>
           ELSE <<>>

RECURSIVE StructuredWarnings(_, _)
\* the warnings of "for row in rows" of extract_structured_data_from_page
StructuredWarnings(rows, disclosure_date) ==
  IF rows = <<>> THEN <<>>
  ELSE RowWarnings(RowCells[Head(rows)], disclosure_date)
         \o StructuredWarnings(Tail(rows), disclosure_date)

\* a scan that takes the first ".pdf" link of the fourth cell, whatever
\* precedes it
RowUrlsFirstPdfLink(cells) ==
  IF Len(cells) >= 4
  THEN LET title_cell == cells[4]
           pdfs == {j \in DOMAIN title_cell.links :
                      /\ title_cell.links[j].href # None
                      /\ EndsWith(title_cell.links[j].href, EXT_PDF)}
       IN  IF /\ \E i \in DOMAIN title_cell.class : title_cell.class[i] = KJ_TITLE
              /\ pdfs # {}
           THEN <<urljoin(BASE_URL,
                          title_cell.links[CHOOSE j \in pdfs : \A k \in pdfs : j <= k].href)>>
           ELSE <<>>
  ELSE <<>>

\* the URLs one row adds to urls: none or one
RowUrls(cells) ==
  IF Len(cells) >= 4
  THEN LET title_cell == cells[4]
       IN  IF /\ \E i \in DOMAIN title_cell.class : title_cell.class[i] = KJ_TITLE
              /\ title_cell.links # <<>>
              /\ title_cell.links[1].href # None
              /\ EndsWith(title_cell.links[1].href, EXT_PDF)
           THEN <<urljoin(BASE_URL, title_cell.links[1].href)>>
           ELSE <<>>
  ELSE <<>>

RECURSIVE UrlRows(_)
\* "for row in rows" of extract_pdf_urls_from_page
UrlRows(rows) ==
  IF rows = <<>> THEN <<>> ELSE RowUrls(RowCells[Head(rows)]) \o UrlRows(Tail(rows))

extract_pdf_urls_from_page(soup) ==
  IF ~soup.has_table THEN <<>> ELSE UrlRows(soup.rows)

I_LIST == <<"I", "_", "l", "i", "s", "t", "_">>

DOT_HTML == <<".", "h", "t", "m", "l">>

\* a pager check satisfied by any onclick attribute
has_next_page_any_onclick(soup) ==
  soup.pagers # <<>> /\ Head(soup.pagers).onclick # None

\* a pager check that looks for the file name only
has_next_page_filename_only(soup) ==
  /\ soup.pagers # <<>>
  /\ Head(soup.pagers).onclick # None
  /\ Contains(Head(soup.pagers).onclick, I_LIST)

has_next_page(soup) ==
  IF soup.pagers = <<>> THEN FALSE
  ELSE LET next_page_div == Head(soup.pagers)
           onclick_attr  == IF next_page_div.onclick = None THEN <<>>
                            ELSE next_page_div.onclick
       IN  Contains(onclick_attr, I_LIST) /\ Contains(onclick_attr, DOT_HTML)

(***************************************************************************)
(* The site: the pages a crawl can be served.                               *)
(***************************************************************************)
RECURSIVE SeqsUpTo(_, _)
\* the sequences over S of length at most n
SeqsUpTo(S, n) ==
  IF n = 0 THEN {<<>>}
  ELSE LET shorter == SeqsUpTo(S, n - 1)
       IN  shorter \cup {Append(q, x) : q \in shorter, x \in S}

ONCLICK_NEXT == <<"p", "a", "g", "e", "r", "(", "'", "I", "_", "l", "i", "s", "t", "_", "0", "0", "2", ".", "h", "t", "m", "l", "'", ")">>

ONCLICK_OTHER == <<"p", "a", "g", "e", "r", "(", ")">>

\* a div.pager-R element
Div(onclick) == [onclick |-> onclick]

\* no div.pager-R
NoPager == <<>>

\* div.pager-R: absent, or present with one of these onclick attributes
Pagers == {NoPager, <<Div(ONCLICK_NEXT)>>, <<Div(ONCLICK_OTHER)>>}

\* has_table: soup.find('table', id='main-list-table') finds a table, whose
\* rows are rows; without it, rows are those of a table that lacks the id
Soup(marker, has_table, rows, pager) ==
  [marker |-> marker, has_table |-> has_table, rows |-> rows, pagers |-> pager]

\* the parsed pages with at most n rows, the rows taken from pool
Soups(pool, n) ==
  {Soup(m, TRUE, rows, p) : m \in BOOLEAN, rows \in SeqsUpTo(pool, n), p \in Pagers}
    \cup {Soup(m, FALSE, <<>>, p) : m \in BOOLEAN, p \in Pagers}

\* the body of an error page: it has rows and a pager all the same
ErrorSoup == Soup(FALSE, TRUE, <<"A">>, <<Div(ONCLICK_NEXT)>>)

\* what s.get(page_url) can give: a response with a status, or a RequestException
Responses(pool, n) ==
  {[raised |-> FALSE, status_code |-> 200, soup |-> b] : b \in Soups(pool, n)}
    \cup {[raised |-> FALSE, status_code |-> c, soup |-> ErrorSoup] :
            c \in {404, 500}}
    \cup {[raised |-> TRUE, status_code |-> 0, soup |-> Soup(FALSE, FALSE, <<>>, NoPager)]}

Date(y, m, d) == [year |-> y, month |-> m, day |-> d]

\* the dates a crawl is asked for
Dates == {Date(2025, 10, 21), Date(2025, 10, 22)}

(***************************************************************************)
(* Command line (tdnet/cli.py): what run() reports of the crawl's outcome.  *)
(***************************************************************************)
\* a print() call: the text printed, with the value formatted into it
Line(text, value) == [text |-> text, value |-> value]

\* the lines printed for one disclosure in the plain rendering
DisclosureLines(d) ==
  <<Line("Time", d.time), Line("Code", d.code), Line("Company", d.name),
    Line("Title", d.title), Line("Exchange", d.place), Line("PDF URL", d.pdf_url)>>
    \o (IF d.xbrl_available
        THEN <<Line("XBRL: Available", <<>>)>>
               \o (IF d.xbrl_url # None THEN <<Line("XBRL URL", d.xbrl_url)>> ELSE <<>>)
        ELSE <<>>)
    \o <<Line("-", <<>>)>>

RECURSIVE AllDisclosureLines(_)
\* "for i, disclosure in enumerate(result.disclosures, 1)"
AllDisclosureLines(disclosures) ==
  IF disclosures = <<>> THEN <<>>
  ELSE DisclosureLines(Head(disclosures)) \o AllDisclosureLines(Tail(disclosures))

\* the "urls" part of the report
ReportUrls(res) ==
  IF res.pdf_urls # <<>>
  THEN [log    |-> <<>>,
        stdout |-> <<Line("--- PDF URLs ---", <<>>),
                     Line("Total unique URLs found", Len(res.pdf_urls)),
                     Line("----------------", <<>>)>>
                     \o [i \in DOMAIN res.pdf_urls |-> Line("url", res.pdf_urls[i])]]
  ELSE [log    |-> <<Msg("INFO", "No PDF URLs were found for the specified date.")>>,
        stdout |-> <<>>]

\* the "structured" part of the report
ReportStructured(res, json) ==
  IF res.disclosures # <<>>
  THEN [log    |-> <<>>,
        stdout |-> <<Line("--- Structured Data ---", <<>>),
                     Line("Total disclosures found", res.total_disclosures),
                     Line("-----------------------", <<>>)>>
                     \o (IF json THEN <<Line("model_dump_json", res.disclosures)>>
                         ELSE AllDisclosureLines(res.disclosures))]
  ELSE [log    |-> <<Msg("INFO", "No structured data was found for the specified date.")>>,
        stdout |-> <<>>]

Nothing == [log |-> <<>>, stdout |-> <<>>]

\* an exit status that treats an empty Result as a failure
ExitCodeEmptyFails(res) ==
  IF res.status = "raised" THEN 1
  ELSE IF res.pdf_urls = <<>> /\ res.disclosures = <<>> THEN 1 ELSE 0

\* the value run() returns after the crawl: 1 from the except branch, else 0
ExitCode(res) == IF res.status = "raised" THEN 1 ELSE 0

\* the second try block of run(): the outcome of the crawl is reported
Report(res, output_format, json) ==
  IF res.status = "raised"
  THEN [log    |-> <<Msg("CRITICAL", "An unexpected error occurred")>>,
        stdout |-> <<>>,
        code   |-> ExitCode(res)]
  ELSE LET urls       == IF output_format \in {"urls", "both"}
                         THEN ReportUrls(res) ELSE Nothing
           structured == IF output_format \in {"structured", "both"}
                         THEN ReportStructured(res, json) ELSE Nothing
           empty      == IF res.pdf_urls = <<>> /\ res.disclosures = <<>>
                         THEN <<Msg("INFO", "No data found for the specified date.")>>
                         ELSE <<>>
       IN  [log    |-> urls.log \o structured.log \o empty,
            stdout |-> urls.stdout \o structured.stdout,
            code   |-> ExitCode(res)]

(***************************************************************************)
(* Pagination crawler (tdnet/services.py).                                  *)
(***************************************************************************)
INBS_I_LIST == <<"/", "i", "n", "b", "s", "/", "I", "_", "l", "i", "s", "t", "_">>

\* an address with the page number padded to two digits
_build_page_url_two_digits(date, page) ==
  IF page = 1
  THEN BASE_URL \o INBS_I_LIST \o <<"0", "0", "1">> \o <<"_">> \o DateCompact(date) \o DOT_HTML
  ELSE BASE_URL \o INBS_I_LIST \o ZeroPad(page, 2) \o <<"_">> \o DateCompact(date) \o DOT_HTML

_build_page_url(date, page) ==
  IF page = 1
  THEN BASE_URL \o INBS_I_LIST \o <<"0", "0", "1">> \o <<"_">> \o DateCompact(date) \o DOT_HTML
  ELSE BASE_URL \o INBS_I_LIST \o ZeroPad(page, 3) \o <<"_">> \o DateCompact(date) \o DOT_HTML

\* response.raise_for_status() raises HTTPError for 4xx and 5xx
RaisesForStatus(status_code) == status_code >= 400 /\ status_code < 600

\* a no-data check that overlooks the marker string
NoDataPageIgnoresMarker(soup) == ~soup.has_table \/ soup.rows = <<>>

\* the condition of the "no data" stop
\* a no-data check that also stops at a page without document URLs
NoDataPageOrNoUrls(soup) ==
  soup.marker \/ ~soup.has_table \/ soup.rows = <<>>
    \/ extract_pdf_urls_from_page(soup) = <<>>

NoDataPage(soup) == soup.marker \/ ~soup.has_table \/ soup.rows = <<>>

RECURSIVE RowsServed(_)
\* rows in the pages served with status 200 so far
RowsServed(requests) ==
  IF requests = <<>> THEN 0
  ELSE (IF Head(requests).response.status_code = 200
        THEN Len(Head(requests).response.soup.rows) ELSE 0) + RowsServed(Tail(requests))

\* s.get(page_url): the request is logged with the response it got
Get(response) ==
  fetched' = Append(fetched, [page     |-> current_page,
                              url      |-> _build_page_url(target_date, current_page),
                              response |-> response])

\* what the site may answer to the next request
NextResponses == Responses(site.pool, site.max_rows - RowsServed(fetched))

\* the two logging.info calls before each request
LogRequest ==
  <<Msg("INFO", "Requesting data for date, page"), Msg("INFO", "URL")>>

\* what the two extractors log for a page with the table
LogExtract(soup, disclosure_date) ==
  <<Msg("INFO", "Found PDF URLs on this page.")>>
    \o StructuredWarnings(soup.rows, disclosure_date)
    \o <<Msg("INFO", "Extracted structured data for disclosures on this page.")>>

\* the site as a direct caller of scrape_tdnet_by_date meets it
AnySite == [pool |-> Rows, max_rows |-> MaxRows]

\* scrape_tdnet_by_date(target_date) is entered
Enter(date) ==
  /\ pc = "loop"
  /\ target_date = date
  /\ current_page = 1
  /\ all_found_urls = <<>>
  /\ all_structured_data = <<>>
  /\ fetched = <<>>
  /\ result = [status |-> "pending"]
  /\ ret = [status |-> "pending"]
  /\ log = <<>>
  /\ stdout = <<>>

Init ==
  /\ site = AnySite
  /\ \E d \in Dates :
       /\ call = [fn |-> "scrape_tdnet_by_date", target_date |-> d]
       /\ Enter(d)

\* a crawl that folds a page in ahead of the pages before it
ExtendPrepends(soup) ==
  /\ all_found_urls' = extract_pdf_urls_from_page(soup) \o all_found_urls
  /\ all_structured_data' =
       extract_structured_data_from_page(soup, target_date) \o all_structured_data

\* the page is extracted into the accumulators
Extend(soup) ==
  /\ all_found_urls' = all_found_urls \o extract_pdf_urls_from_page(soup)
  /\ all_structured_data' =
       all_structured_data \o extract_structured_data_from_page(soup, target_date)

\* after the loop: the Result built from the accumulators, or its validation raises
Outcome(found_urls, structured_data) ==
  LET unique_urls == Sorted(ToSet(found_urls))
      total       == Len(structured_data)
  IN  IF ResultValid(total, structured_data, unique_urls)
      THEN TdnetScrapingResult(target_date, total, structured_data, unique_urls)
      ELSE [status |-> "raised"]

\* the crawl returns to its caller: a direct caller gets the outcome, run()
\* reports it and returns the exit status
Return(found_urls, structured_data, crawl_log) ==
  LET res == Outcome(found_urls, structured_data)
  IN  /\ result' = res
      /\ pc' = "done"
      /\ IF call.fn = "run"
         THEN LET report == Report(res, call.output_format, call.json)
              IN  /\ log' = crawl_log \o report.log
                  /\ stdout' = report.stdout
                  /\ ret' = [status |-> "returned", value |-> report.code]
         ELSE /\ log' = crawl_log
              /\ stdout' = stdout
              /\ ret' = res

\* a crawl that extracts the body of a 404 response
FetchNotFoundParsesBody ==
  /\ pc = "loop"
  /\ \E response \in NextResponses :
       /\ ~response.raised
       /\ response.status_code = 404
       /\ Get(response)
       /\ Extend(response.soup)
  /\ Return(all_found_urls', all_structured_data',
            log \o LogRequest
                \o <<Msg("INFO", "Page not found (404). Reached end of results.")>>)
  /\ UNCHANGED <<target_date, current_page, site, call>>

\* the page is not there: break
FetchNotFound ==
  /\ pc = "loop"
  /\ \E response \in NextResponses :
       /\ ~response.raised
       /\ response.status_code = 404
       /\ Get(response)
  /\ Return(all_found_urls, all_structured_data,
            log \o LogRequest
                \o <<Msg("INFO", "Page not found (404). Reached end of results.")>>)
  /\ UNCHANGED <<target_date, current_page, all_found_urls, all_structured_data,
                 site, call>>

\* RequestException from s.get or from raise_for_status: break
FetchFailed ==
  /\ pc = "loop"
  /\ \E response \in NextResponses :
       /\ \/ response.raised
          \/ response.status_code # 404 /\ RaisesForStatus(response.status_code)
       /\ Get(response)
  /\ Return(all_found_urls, all_structured_data,
            log \o LogRequest \o <<Msg("ERROR", "Failed to retrieve page")>>)
  /\ UNCHANGED <<target_date, current_page, all_found_urls, all_structured_data,
                 site, call>>

\* the page has the marker, no table or no rows: break
NoData ==
  /\ pc = "loop"
  /\ \E response \in NextResponses :
       /\ ~response.raised
       /\ response.status_code # 404
       /\ ~RaisesForStatus(response.status_code)
       /\ NoDataPage(response.soup)
       /\ Get(response)
  /\ Return(all_found_urls, all_structured_data,
            log \o LogRequest
                \o (IF current_page = 1
                    THEN <<Msg("WARNING", "No data found for the date")>>
                    ELSE <<Msg("INFO", "Reached the end of the results.")>>))
  /\ UNCHANGED <<target_date, current_page, all_found_urls, all_structured_data,
                 site, call>>

\* the page is extracted and has no next page: break
LastPage ==
  /\ pc = "loop"
  /\ \E response \in NextResponses :
       /\ ~response.raised
       /\ response.status_code # 404
       /\ ~RaisesForStatus(response.status_code)
       /\ ~NoDataPage(response.soup)
       /\ ~has_next_page(response.soup)
       /\ Get(response)
       /\ Extend(response.soup)
       /\ Return(all_found_urls', all_structured_data',
                 log \o LogRequest \o LogExtract(response.soup, target_date)
                     \o <<Msg("INFO", "Last page reached. Concluding scrape for this date.")>>)
  /\ UNCHANGED <<target_date, current_page, site, call>>

\* a loop that requests the same page again
NextPageNoIncrement ==
  /\ pc = "loop"
  /\ current_page < MaxPages
  /\ \E response \in NextResponses :
       /\ ~response.raised
       /\ response.status_code # 404
       /\ ~RaisesForStatus(response.status_code)
       /\ ~NoDataPage(response.soup)
       /\ has_next_page(response.soup)
       /\ Get(response)
       /\ Extend(response.soup)
       /\ log' = log \o LogRequest \o LogExtract(response.soup, target_date)
  /\ UNCHANGED <<pc, target_date, current_page, result, site, call, ret, stdout>>

\* a loop with a maximum page: the second page ends the crawl
NextPageUpToTwo ==
  /\ pc = "loop"
  /\ current_page < MaxPages
  /\ \E response \in NextResponses :
       /\ ~response.raised
       /\ response.status_code # 404
       /\ ~RaisesForStatus(response.status_code)
       /\ ~NoDataPage(response.soup)
       /\ has_next_page(response.soup)
       /\ Get(response)
       /\ Extend(response.soup)
       /\ IF current_page >= 2
          THEN /\ Return(all_found_urls', all_structured_data',
                         log \o LogRequest \o LogExtract(response.soup, target_date))
               /\ current_page' = current_page
          ELSE /\ log' = log \o LogRequest \o LogExtract(response.soup, target_date)
               /\ current_page' = current_page + 1
               /\ UNCHANGED <<pc, result, ret, stdout>>
  /\ UNCHANGED <<target_date, site, call>>

\* a loop that steps over a page
NextPageSkipsOne ==
  /\ pc = "loop"
  /\ current_page < MaxPages
  /\ \E response \in NextResponses :
       /\ ~response.raised
       /\ response.status_code # 404
       /\ ~RaisesForStatus(response.status_code)
       /\ ~NoDataPage(response.soup)
       /\ has_next_page(response.soup)
       /\ Get(response)
       /\ Extend(response.soup)
       /\ log' = log \o LogRequest \o LogExtract(response.soup, target_date)
  /\ current_page' = current_page + 2
  /\ UNCHANGED <<pc, target_date, result, site, call, ret, stdout>>

\* the page is extracted and signals a next page: current_page += 1
NextPage ==
  /\ pc = "loop"
  /\ current_page < MaxPages
  /\ \E response \in NextResponses :
       /\ ~response.raised
       /\ response.status_code # 404
       /\ ~RaisesForStatus(response.status_code)
       /\ ~NoDataPage(response.soup)
       /\ has_next_page(response.soup)
       /\ Get(response)
       /\ Extend(response.soup)
       /\ log' = log \o LogRequest \o LogExtract(response.soup, target_date)
  /\ current_page' = current_page + 1
  /\ UNCHANGED <<pc, target_date, result, site, call, ret, stdout>>

Next ==
  \/ FetchNotFound
  \/ FetchFailed
  \/ NoData
  \/ LastPage
  \/ NextPage

Spec == Init /\ [][Next]_vars

\* the listing of a date as the site lays it out: every row has the seven
\* tagged cells in their columns and links its own document
ListingSite == [pool |-> {"A", "B", "CAbs"}, max_rows |-> MaxListingRows]

InitListing ==
  /\ site = ListingSite
  /\ \E d \in Dates :
       /\ call = [fn |-> "scrape_tdnet_by_date", target_date |-> d]
       /\ Enter(d)

\* the crawl of a well-formed listing
SpecListing == InitListing /\ [][Next]_vars

\* a site whose rows may carry a cell tagged kjDisclosure_date
DatedSite == [pool |-> {"A", "B", "Dated"}, max_rows |-> MaxDatedRows]

InitDated ==
  /\ site = DatedSite
  /\ \E d \in Dates :
       /\ call = [fn |-> "scrape_tdnet_by_date", target_date |-> d]
       /\ Enter(d)

\* the crawl of that site
SpecDated == InitDated /\ [][Next]_vars

(***************************************************************************)
(* Vocabulary of the properties, in terms of the requests made.             *)
(***************************************************************************)
Done == pc = "done"

Returned == result.status = "returned"

LastFetched == fetched[Len(fetched)]

\* the request met a transport failure or an unsuccessful status other than 404
FetchFailure(e) ==
  e.response.raised \/ (e.response.status_code >= 400 /\ e.response.status_code # 404)

NotFound(e) == ~e.response.raised /\ e.response.status_code = 404

FetchedOk(e) == ~e.response.raised /\ e.response.status_code = 200

\* a fetched page with no table, with the marker, or with no rows
EmptyPage(e) ==
  /\ FetchedOk(e)
  /\ \/ ~e.response.soup.has_table
     \/ e.response.soup.marker
     \/ e.response.soup.rows = <<>>

\* a page that was fetched, passed the no-data check and was extracted
ProcessedPage(e) == FetchedOk(e) /\ ~EmptyPage(e)

\* the pager-R element (the first of the page) carries the filename-onclick pattern
PagerSignal(soup) ==
  /\ soup.pagers # <<>>
  /\ soup.pagers[1].onclick # None
  /\ Contains(soup.pagers[1].onclick, I_LIST)
  /\ Contains(soup.pagers[1].onclick, DOT_HTML)

RECURSIVE UrlsOf(_)
\* the URLs of the processed pages of a log, in page order
UrlsOf(requests) ==
  IF requests = <<>> THEN <<>>
  ELSE (IF ProcessedPage(Head(requests))
        THEN extract_pdf_urls_from_page(Head(requests).response.soup) ELSE <<>>)
         \o UrlsOf(Tail(requests))

RECURSIVE RecordsOf(_)
\* the records of the processed pages of a log, in page order
RecordsOf(requests) ==
  IF requests = <<>> THEN <<>>
  ELSE (IF ProcessedPage(Head(requests))
        THEN extract_structured_data_from_page(Head(requests).response.soup, target_date)
        ELSE <<>>)
         \o RecordsOf(Tail(requests))

\* the requests before the i-th
Before(i) == SubSeq(fetched, 1, i - 1)

\* the URL strings of a Result built from these raw URLs
AsHttpUrls(urls) == {HttpUrlStr(u) : u \in {v \in ToSet(urls) : HttpUrlValid(v)}}

StrictlyIncreasing(seq) ==
  \A i \in DOMAIN seq : i < Len(seq) => StrLess(seq[i], seq[i + 1])

(***************************************************************************)
(* Properties of the crawl.                                                 *)
(***************************************************************************)
\* C1: whatever the site serves, the crawl ends by returning a Result, and the
\* Result has its three invariants: the count is the number of records, the
\* URLs are unique, every record's pdf_url is among the URLs.
C1_CrawlReturnsConsistentResult ==
  Done =>
    /\ Returned
    /\ result.total_disclosures = Len(result.disclosures)
    /\ Cardinality(ToSet(result.pdf_urls)) = Len(result.pdf_urls)
    /\ \A i \in DOMAIN result.disclosures :
         result.disclosures[i].pdf_url \in ToSet(result.pdf_urls)

\* C2: on every page served, a row that yields a record also yields, in the
\* URL pass, the URL of that record.
C2_PassesAgreeOnRecordRows ==
  \A i \in DOMAIN fetched :
    LET soup == fetched[i].response.soup
    IN  \A r \in DOMAIN soup.rows :
          LET records == RowRecords(RowCells[soup.rows[r]], target_date)
              urls    == RowUrls(RowCells[soup.rows[r]])
          IN  records # <<>> => records[1].pdf_url \in AsHttpUrls(urls)

\* C3: the records of a returned Result have pairwise different ids:
\* unique_disclosure_count equals total_disclosures.
C3_RecordsDeduplicated ==
  Returned =>
    /\ unique_disclosure_count(result) = result.total_disclosures
    /\ ~has_duplicate_ids(result)

\* C4: when the fetch of page k fails (transport failure, or a status that is
\* unsuccessful and not 404), the crawl stops there and returns a Result that
\* holds exactly what pages 1..k-1 gave; nothing is raised to the caller.
C4_FailedFetchReturnsAccumulated ==
  \A k \in DOMAIN fetched :
    FetchFailure(fetched[k]) =>
      /\ Done
      /\ k = Len(fetched)
      /\ Returned
      /\ result.disclosures = RecordsOf(Before(k))
      /\ result.total_disclosures = Len(RecordsOf(Before(k)))
      /\ ToSet(result.pdf_urls) = AsHttpUrls(UrlsOf(Before(k)))
      /\ k = 1 => result.total_disclosures = 0 /\ result.pdf_urls = <<>>

\* the pages of a log give a Result that validates: every URL is an http(s)
\* URL, no two URLs are the same address, every record's URL is among them
ConsistentPages(requests) ==
  /\ \A u \in ToSet(UrlsOf(requests)) : HttpUrlValid(u)
  /\ \A u, v \in ToSet(UrlsOf(requests)) : HttpUrlStr(u) = HttpUrlStr(v) => u = v
  /\ \A i \in DOMAIN RecordsOf(requests) : RecordsOf(requests)[i].pdf_url \in AsHttpUrls(UrlsOf(requests))

C6_EmptyPageStopsCrawl ==
  \A k \in DOMAIN fetched :
    EmptyPage(fetched[k]) =>
      /\ Done
      /\ k = Len(fetched)
      /\ all_found_urls = UrlsOf(Before(k))
      /\ all_structured_data = RecordsOf(Before(k))

\* page 2 carries the marker next to a row with a record and a pager that signals
C6_Witness ==
  /\ Done
  /\ Len(fetched) = 2
  /\ fetched[2].response.soup.marker
  /\ fetched[2].response.soup.has_table
  /\ fetched[2].response.soup.rows = <<"A">>
  /\ PagerSignal(fetched[2].response.soup)
  /\ EmptyPage(fetched[2])

\* the page continues the crawl: processed, and its pager signals a next page
Continues(e) == ProcessedPage(e) /\ PagerSignal(e.response.soup)

\* C7: page n+1 is requested exactly when page n was fetched, passed the
\* no-data check, was extracted and its pager signalled; after a page 1 that
\* signals and a page 2 whose pager lacks the pattern there are 2 requests.
C7_NextPageIffSignal ==
  /\ \A n \in DOMAIN fetched : fetched[n].page = n
  /\ \A n \in DOMAIN fetched : n < Len(fetched) => Continues(fetched[n])
  /\ pc = "loop" =>
       /\ current_page = Len(fetched) + 1
       /\ \A n \in DOMAIN fetched : Continues(fetched[n])
  /\ Done => ~Continues(LastFetched)
  /\ \A n \in DOMAIN fetched : ~Continues(fetched[n]) => Done /\ n = Len(fetched)

\* page 1 signals, page 2 is extracted and its pager has another onclick
C7_Witness ==
  /\ Done
  /\ Len(fetched) = 2
  /\ Continues(fetched[1])
  /\ ProcessedPage(fetched[2])
  /\ fetched[2].response.soup.pagers # <<>>
  /\ fetched[2].response.soup.pagers[1].onclick # None
  /\ ~PagerSignal(fetched[2].response.soup)

\* a page that ends the crawl: 404, failed, empty, or without the signal
StopPage(e) ==
  NotFound(e) \/ FetchFailure(e) \/ EmptyPage(e) \/ ~PagerSignal(e.response.soup)

Requests == fetched' # fetched

\* C26: the crawl is sequential: a step makes at most one request; the n-th
\* request is for page n, at an address requested at no earlier step, and it
\* is made only when the URLs and records of every earlier processed page
\* are in the accumulators.
C26_Sequential ==
  [][Requests =>
       /\ Len(fetched') = Len(fetched) + 1
       /\ SubSeq(fetched', 1, Len(fetched)) = fetched
       /\ fetched'[Len(fetched')].page = Len(fetched) + 1
       /\ \A k \in DOMAIN fetched : fetched[k].url # fetched'[Len(fetched')].url
       /\ pc = "loop"
       /\ all_found_urls = UrlsOf(fetched)
       /\ all_structured_data = RecordsOf(fetched)]_vars

\* two pages were requested and extracted, the third request is due
C26_Witness ==
  /\ pc = "loop"
  /\ Len(fetched) = 2
  /\ fetched[1].page = 1
  /\ fetched[2].page = 2
  /\ fetched[1].url # fetched[2].url
  /\ Len(all_found_urls) = 2
  /\ Len(all_structured_data) = 2

\* every page fetched so far was fetched successfully, had the table with
\* rows and no no-data marker, and signalled a next page
SiteNeverStops == \A k \in DOMAIN fetched : Continues(fetched[k])

\* C27: the crawl has no maximum page: as long as every page fetched
\* continues, the crawl has not ended, whatever the page number, and its
\* counter is one more than the number of pages fetched (the model follows
\* it up to MaxPages).
C27_NoMaximumPage ==
  SiteNeverStops =>
    /\ pc = "loop"
    /\ result.status = "pending"
    /\ ret.status = "pending"
    /\ current_page = Len(fetched) + 1

\* the counter stands at the bound of the model after MaxPages - 1 pages
\* that all continue
C27_Witness ==
  /\ SiteNeverStops
  /\ Len(fetched) = MaxPages - 1
  /\ current_page = MaxPages
  /\ pc = "loop"

\* C28: every record of the Result returned by scrape_tdnet_by_date(d) has
\* disclosure_date = d, which is the Result's scraping_date as well; no
\* content of a page changes it.
C28_DisclosureDateIsArgument ==
  /\ \A i \in DOMAIN all_structured_data :
       all_structured_data[i].disclosure_date = call.target_date
  /\ Returned =>
       /\ result.scraping_date = call.target_date
       /\ \A i \in DOMAIN result.disclosures :
            result.disclosures[i].disclosure_date = call.target_date

\* the Result holds the record of a row with a kjDisclosure_date cell
C28_Witness ==
  /\ Returned
  /\ \E k \in DOMAIN fetched :
       /\ ProcessedPage(fetched[k])
       /\ "Dated" \in ToSet(fetched[k].response.soup.rows)
  /\ \E i \in DOMAIN result.disclosures :
       /\ result.disclosures[i].pdf_url = BASE_URL \o HREF_C
       /\ result.disclosures[i].disclosure_date = call.target_date

\* a page fetched with a table of one row or more, no no-data marker and a
\* pager signal, of which neither pass extracted anything
SignalsWithoutYield(e) ==
  /\ ~e.response.raised
  /\ e.response.status_code = 200
  /\ e.response.soup.has_table
  /\ e.response.soup.rows # <<>>
  /\ ~e.response.soup.marker
  /\ PagerSignal(e.response.soup)
  /\ extract_pdf_urls_from_page(e.response.soup) = <<>>
  /\ extract_structured_data_from_page(e.response.soup, target_date) = <<>>

\* C30: extracting nothing from a page is no stop condition: after a page
\* with rows, no marker and a pager signal that yielded no record and no
\* URL, the crawl is in the loop at the next page or has requested it.
C30_ZeroRecordsNoStop ==
  \A k \in DOMAIN fetched :
    SignalsWithoutYield(fetched[k]) =>
      \/ pc = "loop" /\ k = Len(fetched) /\ current_page = k + 1
                     /\ result.status = "pending"
      \/ k < Len(fetched) /\ fetched[k + 1].page = k + 1

\* page 1 held only a row without cells and signalled; page 2 was requested
C30_Witness ==
  /\ Len(fetched) >= 2
  /\ SignalsWithoutYield(fetched[1])
  /\ fetched[1].response.soup.rows = <<"Header">>
  /\ all_found_urls = UrlsOf(SubSeq(fetched, 2, Len(fetched)))
  /\ fetched[2].page = 2

\* C9: the pdf_urls of a returned Result are strictly increasing as strings and
\* are, as a set, the URLs the URL pass found on the processed pages.
C9_UrlsSortedAndComplete ==
  Returned =>
    /\ StrictlyIncreasing(result.pdf_urls)
    /\ ToSet(result.pdf_urls) = AsHttpUrls(UrlsOf(fetched))

\* C10: the disclosures of a returned Result are the records of the processed
\* pages, page after page and row after row, and total_disclosures is their number.
C10_DisclosuresInPageRowOrder ==
  Returned =>
    /\ result.disclosures = RecordsOf(fetched)
    /\ result.total_disclosures = Len(RecordsOf(fetched))
    /\ result.disclosures = all_structured_data

\* two pages gave one record each, and the records differ
C10_Witness ==
  /\ Returned
  /\ Len(fetched) = 2
  /\ ProcessedPage(fetched[1])
  /\ ProcessedPage(fetched[2])
  /\ Len(RecordsOf(<<fetched[1]>>)) = 1
  /\ Len(result.disclosures) = 2
  /\ result.disclosures[1] # result.disclosures[2]

(***************************************************************************)
(* The extractors called on one page (as the unit tests call them).         *)
(***************************************************************************)
NoDate == Date(0, 0, 0)

NoSite == [pool |-> {}, max_rows |-> 0]

\* no crawl is under way: a function is called on its own
Called ==
  /\ pc = "call"
  /\ ret = [status |-> "pending"]
  /\ target_date = NoDate
  /\ current_page = 0
  /\ all_found_urls = <<>>
  /\ all_structured_data = <<>>
  /\ fetched = <<>>
  /\ result = [status |-> "pending"]
  /\ site = NoSite
  /\ log = <<>>
  /\ stdout = <<>>

\* the call returns value
Returns(value, messages) ==
  /\ ret' = [status |-> "returned", value |-> value]
  /\ log' = messages
  /\ pc' = "returned"
  /\ UNCHANGED <<target_date, current_page, all_found_urls, all_structured_data,
                 fetched, result, site, call, stdout>>

\* the rows of the pages with several rows
PageRows == {"A", "B", "Shifted", "BadTime", "NoPdf", "Short"}

\* rows with time, code and pdf_url whose TdnetDisclosure(**row_data) raises
RejectedRows ==
  {"BadTime", "BadCode", "EmptyName", "EmptyTitle", "NoPlace", "TitleZip",
   "UnknownTag", "BareKj"}

\* the rows of a table that lacks id="main-list-table" (has_table FALSE):
\* the unclosed table of the malformed page, and tables of listing rows
OtherTableRows == {<<"Incomplete">>, <<"A">>, <<"A", "B">>}

\* the pages handed to the extractors: every sequence of PageRows up to
\* MaxPageRows, every row on its own, every rejected row between two rows
\* that give a record, and a page without the table
PageSoups ==
  {Soup(FALSE, TRUE, rows, NoPager) : rows \in SeqsUpTo(PageRows, MaxPageRows)}
    \cup {Soup(FALSE, TRUE, <<r>>, NoPager) : r \in DOMAIN RowCells}
    \cup {Soup(FALSE, TRUE, <<w1, r, w2>>, NoPager) :
            w1 \in {"A", "B"}, r \in RejectedRows, w2 \in {"A", "B"}}
    \cup {Soup(FALSE, FALSE, <<>>, NoPager)}
    \cup {Soup(FALSE, FALSE, rows, NoPager) : rows \in OtherTableRows}

PageDates == {Date(2025, 10, 21)}

\* an onclick that names the listing file without ".html"
ONCLICK_NO_HTML == <<"p", "a", "g", "e", "r", "(", "'", "I", "_", "l", "i", "s", "t", "_", "0", "0", "2", "'", ")">>

\* an onclick that names another ".html" file
ONCLICK_NO_LIST == <<"p", "a", "g", "e", "r", "(", "'", "t", "o", "p", ".", "h", "t", "m", "l", "'", ")">>

\* an onclick with ".html" ahead of "I_list_"
ONCLICK_REVERSED == <<".", "h", "t", "m", "l", "/", "I", "_", "l", "i", "s", "t", "_">>

\* the onclick attribute of a pager-R element: none, empty, or one of these
Onclicks ==
  {None, <<>>, ONCLICK_NEXT, ONCLICK_OTHER, ONCLICK_NO_HTML, ONCLICK_NO_LIST,
   ONCLICK_REVERSED}

\* the pages handed to has_next_page
PagerSoups ==
  {Soup(FALSE, t, <<>>, ps) :
     t \in BOOLEAN, ps \in SeqsUpTo({Div(o) : o \in Onclicks}, MaxPagers)}

PageCalls ==
  {[fn |-> "extract_structured_data_from_page", soup |-> b, disclosure_date |-> d] :
     b \in PageSoups, d \in PageDates}
    \cup {[fn |-> "extract_pdf_urls_from_page", soup |-> b] : b \in PageSoups}
    \cup {[fn |-> "has_next_page", soup |-> b] : b \in PagerSoups}

InitPage ==
  /\ call \in PageCalls
  /\ Called

CallExtractStructured ==
  /\ pc = "call"
  /\ call.fn = "extract_structured_data_from_page"
  /\ Returns(extract_structured_data_from_page(call.soup, call.disclosure_date),
             IF ~call.soup.has_table
             THEN <<Msg("WARNING", "Could not find main-list-table")>>
             ELSE StructuredWarnings(call.soup.rows, call.disclosure_date)
                    \o <<Msg("INFO", "Extracted structured data for disclosures on this page.")>>)

CallExtractPdfUrls ==
  /\ pc = "call"
  /\ call.fn = "extract_pdf_urls_from_page"
  /\ Returns(extract_pdf_urls_from_page(call.soup),
             IF ~call.soup.has_table
             THEN <<Msg("WARNING", "Could not find main-list-table")>>
             ELSE <<Msg("INFO", "Found PDF URLs on this page.")>>)

CallHasNextPage ==
  /\ pc = "call"
  /\ call.fn = "has_next_page"
  /\ Returns(has_next_page(call.soup), <<>>)

PageNext ==
  \/ CallExtractStructured
  \/ CallExtractPdfUrls
  \/ CallHasNextPage

SpecPage == InitPage /\ [][PageNext]_vars

\* the record a row is expected to give: the fields in its tagged cells
ExpectedOf(pdf_url, xbrl_url, d) ==
  [time            |-> <<"1", "5", ":", "3", "0">>,
   code            |-> <<"1", "2", "3", "4", "5">>,
   name            |-> <<"N">>,
   title           |-> <<"T">>,
   pdf_url         |-> pdf_url,
   xbrl_available  |-> xbrl_url # None,
   xbrl_url        |-> xbrl_url,
   place           |-> <<"T">>,
   history         |-> <<>>,
   disclosure_date |-> d]

\* the well-formed rows (every required field tagged and valid), each with
\* the record expected of it
ExpectedRecord(d) ==
  [A       |-> ExpectedOf(BASE_URL \o HREF_A, None, d),
   B       |-> ExpectedOf(BASE_URL \o HREF_B, BASE_URL \o HREF_B_ZIP, d),
   BAbs    |-> ExpectedOf(BASE_URL \o HREF_B, None, d),
   CAbs    |-> ExpectedOf(BASE_URL \o HREF_C, None, d),
   Shifted |-> ExpectedOf(BASE_URL \o HREF_A, None, d)]

WellFormedRows == {"A", "B", "BAbs", "CAbs", "Shifted"}

\* the malformed rows: a time that is no time, a document address that is no
\* http address, no document, too few cells, no data cells
MalformedRows == {"BadTime", "Ftp", "NoPdf", "Short", "Header"}

RECURSIVE ExpectedRecords(_, _)
\* the expected records of the well-formed rows among rows, in row order
ExpectedRecords(rows, d) ==
  IF rows = <<>> THEN <<>>
  ELSE (IF Head(rows) \in WellFormedRows THEN <<ExpectedRecord(d)[Head(rows)]>> ELSE <<>>)
         \o ExpectedRecords(Tail(rows), d)

ReturnedFrom(fn) == pc = "returned" /\ call.fn = fn

\* C12: of a page with well-formed and malformed rows in any order,
\* extract_structured_data_from_page returns exactly the records of the
\* well-formed rows, one each, in row order; the malformed rows add nothing
\* and change no other row's record.
C12_WellFormedRowsExtracted ==
  (/\ ReturnedFrom("extract_structured_data_from_page")
   /\ call.soup.has_table
   /\ ToSet(call.soup.rows) \subseteq WellFormedRows \cup MalformedRows) =>
    /\ ret.status = "returned"
    /\ ret.value = ExpectedRecords(call.soup.rows, call.disclosure_date)
    /\ Len(ret.value) =
         Cardinality({i \in DOMAIN call.soup.rows : call.soup.rows[i] \in WellFormedRows})

\* a malformed row between two different well-formed rows
C12_Witness ==
  /\ ReturnedFrom("extract_structured_data_from_page")
  /\ Len(call.soup.rows) = 3
  /\ call.soup.rows[1] \in WellFormedRows
  /\ call.soup.rows[2] \in MalformedRows
  /\ call.soup.rows[3] \in WellFormedRows
  /\ Len(ret.value) = 2
  /\ ret.value[1] # ret.value[2]

\* the cells of a row tagged kjXbrl
XbrlCells(cells) == {i \in DOMAIN cells : KJ_XBRL \in ToSet(cells[i].class)}

\* the archive links of a cell: the hrefs that end in ".zip"
ArchiveLinks(cell) ==
  {j \in DOMAIN cell.links :
     LET href == cell.links[j].href
     IN  Len(href) >= 4 /\ SubSeq(href, Len(href) - 3, Len(href)) = <<".", "z", "i", "p">>}

\* the rows with a kjXbrl cell of their own that are not malformed
RowsWithXbrlCell ==
  {r \in DOMAIN RowCells \ MalformedRows : XbrlCells(RowCells[r]) # {}}

\* what the kjXbrl cell of a row says: the address of its archive link (a
\* path on the site), or None
XbrlCellSays(cells) ==
  LET cell == cells[CHOOSE i \in XbrlCells(cells) : TRUE]
  IN  IF ArchiveLinks(cell) = {} THEN None
      ELSE BASE_URL \o cell.links[CHOOSE j \in ArchiveLinks(cell) : TRUE].href

\* C20: the kjXbrl cell of a row is authoritative: the row's record has
\* xbrl_available true and the cell's archive address when the cell links an
\* archive, xbrl_available false and no xbrl_url when it does not, whatever
\* the title cell links and whichever of the two cells comes first.
C20_XbrlCellAuthoritative ==
  (/\ ReturnedFrom("extract_structured_data_from_page")
   /\ call.soup.has_table
   /\ Len(call.soup.rows) = 1
   /\ call.soup.rows[1] \in RowsWithXbrlCell) =>
    /\ Len(ret.value) = 1
    /\ LET says == XbrlCellSays(RowCells[call.soup.rows[1]])
       IN  /\ ret.value[1].xbrl_available = (says # None)
           /\ ret.value[1].xbrl_url = says

\* does href end in the four characters ext
EndsIn(href, ext) ==
  href # None /\ Len(href) >= 4 /\ SubSeq(href, Len(href) - 3, Len(href)) = ext

\* the links of a cell whose target ends in ext, by position
LinksTo(cell, ext) == {j \in DOMAIN cell.links : EndsIn(cell.links[j].href, ext)}

\* a class with the prefix "kj"
HasKj(class_name) == Len(class_name) >= 2 /\ class_name[1] = "k" /\ class_name[2] = "j"

\* the cells of a row whose first kj class is kjTitle
TitleCells(cells) ==
  {i \in DOMAIN cells :
     \E k \in DOMAIN cells[i].class :
       /\ cells[i].class[k] = KJ_TITLE
       /\ \A l \in 1..(k - 1) : ~HasKj(cells[i].class[l])}

\* a target resolved against the base address: a path on the site is
\* appended to it, an absolute address stands
Resolved(href) == IF href[1] = "/" THEN BASE_URL \o href ELSE href

Least(S) == CHOOSE x \in S : \A y \in S : x <= y

Greatest(S) == CHOOSE x \in S : \A y \in S : x >= y

\* the rows of six cells or more with one title cell
RowsWithOneTitleCell ==
  {r \in DOMAIN RowCells :
     Len(RowCells[r]) >= 6 /\ Cardinality(TitleCells(RowCells[r])) = 1}

\* C21: in a row's title cell the first ".pdf" link gives title (its text)
\* and pdf_url (its target resolved against the base address) and later
\* ".pdf" links change neither; a ".zip" link at any position gives xbrl_url
\* and xbrl_available true (seen in the record of a row without a kjXbrl
\* cell of its own, which would act after it); without a ".pdf" link the title is the cell
\* text, no pdf_url is recorded and the row gives no record.
C21_TitleCellLinks ==
  (/\ ReturnedFrom("extract_structured_data_from_page")
   /\ call.soup.has_table
   /\ Len(call.soup.rows) = 1
   /\ call.soup.rows[1] \in RowsWithOneTitleCell) =>
    LET cells    == RowCells[call.soup.rows[1]]
        cell     == cells[CHOOSE i \in TitleCells(cells) : TRUE]
        pdfs     == LinksTo(cell, <<".", "p", "d", "f">>)
        zips     == LinksTo(cell, <<".", "z", "i", "p">>)
        row_data == RowData(<<>>, cells)
    IN  /\ pdfs # {} =>
              /\ row_data[F_title] = cell.links[Least(pdfs)].text
              /\ row_data[F_pdf_url] = Resolved(cell.links[Least(pdfs)].href)
              /\ \A i \in DOMAIN ret.value :
                    ret.value[i].title = cell.links[Least(pdfs)].text
        /\ (zips # {} /\ XbrlCells(cells) = {}) =>
              /\ row_data[F_xbrl_available] = TRUE
              /\ row_data[F_xbrl_url] = Resolved(cell.links[Greatest(zips)].href)
              /\ \A i \in DOMAIN ret.value :
                    /\ ret.value[i].xbrl_available
                    /\ ret.value[i].xbrl_url = row_data[F_xbrl_url]
        /\ pdfs = {} =>
              /\ row_data[F_title] = cell.text
              /\ F_pdf_url \notin DOMAIN row_data
              /\ ret.value = <<>>

\* a title cell with an archive link ahead of two document links gave a
\* record of the first document with the archive
C21_Witness ==
  /\ ReturnedFrom("extract_structured_data_from_page")
  /\ call.soup.rows = <<"ZipPdfZip">>
  /\ Len(ret.value) = 1
  /\ ret.value[1].title = <<"T">>
  /\ ret.value[1].pdf_url = BASE_URL \o HREF_A
  /\ ret.value[1].xbrl_available

\* a cell without the classes that follow its first kj class
UpToFirstKj(cell) ==
  LET kjs == {k \in DOMAIN cell.class : HasKj(cell.class[k])}
  IN  IF kjs = {} THEN cell
      ELSE [cell EXCEPT !.class = SubSeq(cell.class, 1, Least(kjs))]

\* the rows with a cell of two kj classes
RowsWithTwoKj ==
  {r \in DOMAIN RowCells :
     \E i \in DOMAIN RowCells[r] :
       Cardinality({k \in DOMAIN RowCells[r][i].class : HasKj(RowCells[r][i].class[k])}) >= 2}

\* C22: of each cell only the first class with the prefix "kj" is honoured:
\* a row of six cells or more gives what the same row gives with every class
\* after a cell's first kj class removed; a row of fewer than six cells
\* gives no record.
C22_FirstKjClassWins ==
  (/\ ReturnedFrom("extract_structured_data_from_page")
   /\ call.soup.has_table
   /\ Len(call.soup.rows) = 1) =>
    LET cells == RowCells[call.soup.rows[1]]
        first == [i \in DOMAIN cells |-> UpToFirstKj(cells[i])]
    IN  /\ Len(cells) < 6 => ret.value = <<>>
        /\ Len(cells) >= 6 =>
              /\ ret.value = RowRecords(first, call.disclosure_date)
              /\ RowData(<<>>, cells) = RowData(<<>>, first)
        /\ call.soup.rows[1] \in {"MultiClass", "NameTitle"} =>
              ret.value = <<ExpectedOf(BASE_URL \o HREF_A, None, call.disclosure_date)>>
        /\ call.soup.rows[1] = "CodeSecond" => ret.value = <<>>

\* a row whose third cell has classes x, kjName, kjCode gave the record with
\* the cell text as name and the code of the kjCode cell
C22_Witness ==
  /\ ReturnedFrom("extract_structured_data_from_page")
  /\ call.soup.rows = <<"MultiClass">>
  /\ call.soup.rows[1] \in RowsWithTwoKj
  /\ Len(ret.value) = 1
  /\ ret.value[1].name = <<"N">>
  /\ ret.value[1].code = <<"1", "2", "3", "4", "5">>

\* the rows whose construction fails validation: a time that is no time, a
\* code outside [0-9A-Z], an empty name, an empty title, no place, an
\* archive address with xbrl_available false
FailedValidationRows ==
  {"BadTime", "BadCode", "EmptyName", "EmptyTitle", "NoPlace", "TitleZip"}

\* the positions of the rows of a page that fail validation
FailedAt(rows) == {i \in DOMAIN rows : rows[i] \in FailedValidationRows}

\* C23: a row whose construction fails validation is skipped without
\* aborting the page: extract_structured_data_from_page returns, with the
\* records of the rows before and after it, one warning logged per such row.
C23_FailedRowSkipped ==
  (/\ ReturnedFrom("extract_structured_data_from_page")
   /\ call.soup.has_table
   /\ FailedAt(call.soup.rows) # {}
   /\ ToSet(call.soup.rows) \subseteq WellFormedRows \cup FailedValidationRows) =>
    /\ ret.status = "returned"
    /\ ret.value = ExpectedRecords(call.soup.rows, call.disclosure_date)
    /\ Len(ret.value) = Len(call.soup.rows) - Cardinality(FailedAt(call.soup.rows))
    /\ Cardinality({i \in DOMAIN log : log[i].level = "WARNING"})
         = Cardinality(FailedAt(call.soup.rows))

\* a row with an empty name between rows A and B: both records returned
C23_Witness ==
  /\ ReturnedFrom("extract_structured_data_from_page")
  /\ call.soup.rows = <<"A", "EmptyName", "B">>
  /\ Len(ret.value) = 2
  /\ ret.value[1].pdf_url = BASE_URL \o HREF_A
  /\ ret.value[2].pdf_url = BASE_URL \o HREF_B

\* C24: when the page has no table with id main-list-table (no table at all,
\* or a table without the id, such as the unclosed table of a malformed
\* page), extract_structured_data_from_page and extract_pdf_urls_from_page
\* return an empty list and raise nothing.
C24_NoTableEmptyList ==
  (/\ pc = "returned"
   /\ call.fn \in {"extract_structured_data_from_page", "extract_pdf_urls_from_page"}
   /\ ~call.soup.has_table) =>
    /\ ret.status = "returned"
    /\ ret.value = <<>>

\* the structured extractor returned [] for a table of listing rows that
\* lacks the id
C24_Witness ==
  /\ ReturnedFrom("extract_structured_data_from_page")
  /\ ~call.soup.has_table
  /\ call.soup.rows = <<"A", "B">>
  /\ ret.value = <<>>

\* a row gives a URL: four cells or more, the fourth carries the title
\* class, and its first hyperlink has a target ending in ".pdf"
GivesUrl(cells) ==
  /\ Len(cells) >= 4
  /\ KJ_TITLE \in ToSet(cells[4].class)
  /\ cells[4].links # <<>>
  /\ EndsIn(cells[4].links[1].href, <<".", "p", "d", "f">>)

RECURSIVE ExpectedUrls(_)
\* one URL for each row that gives one, in row order, duplicates kept
ExpectedUrls(rows) ==
  IF rows = <<>> THEN <<>>
  ELSE (IF GivesUrl(RowCells[Head(rows)])
        THEN <<Resolved(RowCells[Head(rows)][4].links[1].href)>> ELSE <<>>)
         \o ExpectedUrls(Tail(rows))

\* C25: extract_pdf_urls_from_page gives a URL for a row if and only if the
\* row has four cells or more, the fourth carries the title class and its
\* first hyperlink ends in ".pdf"; at most one per row, in row order,
\* duplicates kept.
C25_PdfUrlsOfPage ==
  (ReturnedFrom("extract_pdf_urls_from_page") /\ call.soup.has_table) =>
    /\ ret.value = ExpectedUrls(call.soup.rows)
    /\ Len(ret.value) =
         Cardinality({i \in DOMAIN call.soup.rows : GivesUrl(RowCells[call.soup.rows[i]])})

\* the same row twice around a row whose title cell is not the fourth: the
\* URL is returned twice
C25_Witness ==
  /\ ReturnedFrom("extract_pdf_urls_from_page")
  /\ call.soup.rows = <<"A", "Shifted", "A">>
  /\ ret.value = <<BASE_URL \o HREF_A, BASE_URL \o HREF_A>>

\* the kj classes that name an attribute of the record or have a branch of
\* their own
KnownTags ==
  {KJ_TIME, KJ_CODE, KJ_NAME, KJ_PLACE, KJ_DISCLOSURE_DATE,
   KJ_TITLE, KJ_XBRL, KJ_HISTROY, KJ_COMPANY}

\* the rows with a cell whose first kj class is none of the known ones
RowsWithUnknownTag ==
  {r \in DOMAIN RowCells :
     \E i \in DOMAIN RowCells[r] :
       LET kjs == {k \in DOMAIN RowCells[r][i].class : HasKj(RowCells[r][i].class[k])}
       IN  kjs # {} /\ RowCells[r][i].class[Least(kjs)] \notin KnownTags}

\* C29: a row with a cell whose first kj class names no attribute of the
\* record (and is none of kjTitle, kjXbrl, kjHistroy, kjCompany) gives no
\* record, although its time, code, name, title, place and pdf_url are
\* valid; the rows around it give theirs.
C29_UnknownTagDropsRow ==
  (/\ ReturnedFrom("extract_structured_data_from_page")
   /\ call.soup.has_table
   /\ ToSet(call.soup.rows) \cap RowsWithUnknownTag # {}
   /\ ToSet(call.soup.rows) \subseteq WellFormedRows \cup RowsWithUnknownTag) =>
    /\ ret.value = ExpectedRecords(call.soup.rows, call.disclosure_date)
    /\ \A i \in DOMAIN ret.value : ret.value[i] \in
         {ExpectedRecord(call.disclosure_date)[r] : r \in ToSet(call.soup.rows) \ RowsWithUnknownTag}
    /\ Len(call.soup.rows) = 1 => ret.value = <<>>

\* a row with a kjFoo cell between rows B and A: two records
C29_Witness ==
  /\ ReturnedFrom("extract_structured_data_from_page")
  /\ call.soup.rows = <<"B", "UnknownTag", "A">>
  /\ "UnknownTag" \in RowsWithUnknownTag
  /\ Len(ret.value) = 2
  /\ ret.value[1].pdf_url = BASE_URL \o HREF_B
  /\ ret.value[2].pdf_url = BASE_URL \o HREF_A

(***************************************************************************)
(* The models constructed on their own (as the unit tests construct them).  *)
(***************************************************************************)
\* the call raises
Raises(error) ==
  /\ ret' = [status |-> "raised", error |-> error]
  /\ pc' = "raised"
  /\ UNCHANGED <<target_date, current_page, all_found_urls, all_structured_data,
                 fetched, result, site, call, log, stdout>>

URL_A == BASE_URL \o HREF_A

URL_B == BASE_URL \o HREF_B

\* an address with "_" and digits at its end
URL_A_1 == BASE_URL \o <<"/", "a", "_", "1">>

URL_B_ZIP == BASE_URL \o HREF_B_ZIP

NOT_A_URL == <<"n", "o", "t", "-", "a", "-", "u", "r", "l">>

\* an argument a caller may leave out
Given(value) == [given |-> TRUE, value |-> value]

NotGiven == [given |-> FALSE, value |-> None]

\* kw with k = arg.value when the argument is given
With(kw, k, arg) == IF arg.given THEN Put(kw, k, arg.value) ELSE kw

\* the required keyword arguments
RequiredKw(time, code, name, title, pdf_url, place, d) ==
  Put(Put(Put(Put(Put(Put(Put(<<>>, F_time, time), F_code, code), F_name, name),
                  F_title, title), F_pdf_url, pdf_url), F_place, place),
      F_disclosure_date, d)

SampleTimes == {<<"1", "5", ":", "3", "0">>, <<"5", ":", "3", "0">>, <<"9", "a", "m">>}

SampleCodes == {<<"1", "2", "3", "4", "5">>, <<"1", "2", "3", "4">>}

SamplePdfUrls == {URL_A, URL_A_1, HREF_B_ABS, NOT_A_URL}

SampleNames == {<<"N">>, <<"M">>}

\* xbrl_available: left out, True, False
XbrlAvailableArgs ==
  {[given |-> FALSE, value |-> FALSE]} \cup {[given |-> TRUE, value |-> b] : b \in BOOLEAN}

\* xbrl_url: left out, None, an address, a string that is no address
XbrlUrlArgs == {NotGiven, Given(None), Given(URL_B_ZIP), Given(NOT_A_URL)}

\* the keyword arguments TdnetDisclosure is called with
DisclosureKwargs ==
  {With(With(RequiredKw(t, c, n, <<"T">>, u, <<"T">>, d), F_xbrl_available, xa),
        F_xbrl_url, xu) :
     t \in SampleTimes, c \in SampleCodes, n \in SampleNames, u \in SamplePdfUrls,
     d \in Dates, xa \in XbrlAvailableArgs, xu \in XbrlUrlArgs}

\* two records of different documents
SampleRecords ==
  {TdnetDisclosure(RequiredKw(<<"1", "5", ":", "3", "0">>, <<"1", "2", "3", "4", "5">>,
                              <<"N">>, <<"T">>, u, <<"T">>, Date(2025, 10, 21))) :
     u \in {URL_A, HREF_B_ABS}}

\* the URLs a Result is given: of the records, of the second record as
\* written on the page, and one that is no http address
SampleResultUrls == {URL_A, URL_B, HREF_B_ABS, HREF_FTP}

ResultCalls ==
  {[fn |-> "TdnetScrapingResult", scraping_date |-> Date(2025, 10, 21),
    total_disclosures |-> n, disclosures |-> ds, pdf_urls |-> us] :
     n \in (0 - 1)..(MaxResultItems + 1),
     ds \in SeqsUpTo(SampleRecords, MaxResultItems),
     us \in SeqsUpTo(SampleResultUrls, MaxResultItems)}

\* the fields the id does not read, in two variants
OtherFields ==
  {[name |-> <<"N">>, title |-> <<"T">>, place |-> <<"T">>,
    xbrl_available |-> [given |-> FALSE, value |-> FALSE], xbrl_url |-> NotGiven,
    history |-> NotGiven],
   [name |-> <<"M">>, title |-> <<"U">>, place |-> <<"S">>,
    xbrl_available |-> [given |-> TRUE, value |-> TRUE], xbrl_url |-> Given(URL_B_ZIP),
    history |-> Given(<<"h">>)]}

\* valid keyword arguments that vary in every field
IdKwargs ==
  {With(With(With(RequiredKw(t, c, o.name, o.title, u, o.place, d),
                  F_xbrl_available, o.xbrl_available), F_xbrl_url, o.xbrl_url),
        F_history, o.history) :
     t \in {<<"1", "5", ":", "3", "0">>, <<"5", ":", "3", "0">>},
     c \in SampleCodes, u \in {URL_A_1, URL_B, HREF_B_ABS}, d \in Dates,
     o \in OtherFields}

\* two records are constructed and their ids read
IdCalls == {[fn |-> "id", first |-> a, second |-> b] : a \in IdKwargs, b \in IdKwargs}

\* the page numbers an address is built for
SamplePages == (1..12) \cup {99, 100, 101, 999, 1000}

SampleDates == {Date(2025, 10, 21), Date(2025, 1, 5), Date(2026, 11, 4)}

BuildCalls ==
  {[fn |-> "_build_page_url", date |-> d, page |-> n] : d \in SampleDates, n \in SamplePages}

ModelCalls ==
  {[fn |-> "TdnetDisclosure", kw |-> kw] : kw \in DisclosureKwargs}
    \cup ResultCalls \cup IdCalls \cup BuildCalls

InitModels ==
  /\ call \in ModelCalls
  /\ Called

\* TdnetDisclosure(**kw)
CallTdnetDisclosure ==
  /\ pc = "call"
  /\ call.fn = "TdnetDisclosure"
  /\ IF DisclosureValid(call.kw)
     THEN Returns(TdnetDisclosure(call.kw), <<>>)
     ELSE Raises("ValidationError")

\* TdnetScrapingResult(scraping_date=..., total_disclosures=..., ...)
CallTdnetScrapingResult ==
  /\ pc = "call"
  /\ call.fn = "TdnetScrapingResult"
  /\ IF ResultValid(call.total_disclosures, call.disclosures, call.pdf_urls)
     THEN Returns(TdnetScrapingResult(call.scraping_date, call.total_disclosures,
                                      call.disclosures, call.pdf_urls), <<>>)
     ELSE Raises("ValidationError")

\* TdnetDisclosure(**first).id and TdnetDisclosure(**second).id
CallId ==
  /\ pc = "call"
  /\ call.fn = "id"
  /\ Returns(<<DisclosureId(TdnetDisclosure(call.first)),
               DisclosureId(TdnetDisclosure(call.second))>>, <<>>)

\* _build_page_url(date, page)
CallBuildPageUrl ==
  /\ pc = "call"
  /\ call.fn = "_build_page_url"
  /\ Returns(_build_page_url(call.date, call.page), <<>>)

ModelsNext ==
  \/ CallTdnetDisclosure
  \/ CallTdnetScrapingResult
  \/ CallId
  \/ CallBuildPageUrl

SpecModels == InitModels /\ [][ModelsNext]_vars

CallEnded(fn) == pc \in {"returned", "raised"} /\ call.fn = fn

\* C13: a Record that is constructed has xbrl_available exactly when it has an
\* xbrl_url; the construction fails when xbrl_available is true and no
\* xbrl_url is given, and when xbrl_available is false (or left out) and an
\* xbrl_url is given.
C13_XbrlConsistency ==
  CallEnded("TdnetDisclosure") =>
    LET xbrl_available == Arg(call.kw, F_xbrl_available, FALSE)
        xbrl_url       == Arg(call.kw, F_xbrl_url, None)
    IN  /\ ret.status = "returned" =>
             (ret.value.xbrl_available <=> ret.value.xbrl_url # None)
        /\ (xbrl_available /\ xbrl_url = None) => ret.status = "raised"
        /\ (~xbrl_available /\ xbrl_url # None) => ret.status = "raised"

\* the required arguments alone are accepted, and the call fails for giving
\* an xbrl_url next to xbrl_available = False
C13_Witness ==
  /\ CallEnded("TdnetDisclosure")
  /\ ret.status = "raised"
  /\ DisclosureValid([k \in RequiredFields |-> call.kw[k]])
  /\ F_xbrl_available \in DOMAIN call.kw
  /\ ~call.kw[F_xbrl_available]
  /\ F_xbrl_url \in DOMAIN call.kw
  /\ call.kw[F_xbrl_url] = URL_B_ZIP

\* the arguments are of the declared types: a count >= 0, http addresses
TypedResultArgs ==
  /\ call.total_disclosures >= 0
  /\ \A i \in DOMAIN call.pdf_urls : HttpUrlValid(call.pdf_urls[i])

\* the count differs from the number of disclosures
CountMismatch == call.total_disclosures # Len(call.disclosures)

\* two entries of pdf_urls are the same URL string
DuplicateUrl ==
  \E i, j \in DOMAIN call.pdf_urls :
    i # j /\ HttpUrlStr(call.pdf_urls[i]) = HttpUrlStr(call.pdf_urls[j])

\* a record's pdf_url is not among pdf_urls
MissingRecordUrl ==
  \E i \in DOMAIN call.disclosures :
    \A j \in DOMAIN call.pdf_urls :
      call.disclosures[i].pdf_url # HttpUrlStr(call.pdf_urls[j])

\* C14: constructing a Result fails when total_disclosures is not the number
\* of disclosures, when pdf_urls holds the same URL twice, and when a record's
\* pdf_url is not in pdf_urls; with none of the three it succeeds, also when
\* pdf_urls holds URLs of no record.
C14_ResultInvariantsEnforced ==
  CallEnded("TdnetScrapingResult") =>
    /\ TypedResultArgs =>
         (ret.status = "raised" <=> CountMismatch \/ DuplicateUrl \/ MissingRecordUrl)
    /\ CountMismatch => ret.status = "raised"
    /\ (\E i, j \in DOMAIN call.pdf_urls : i # j /\ call.pdf_urls[i] = call.pdf_urls[j])
         => ret.status = "raised"

\* a Result of one record is constructed with a URL of no record next to the record's
C14_Witness ==
  /\ CallEnded("TdnetScrapingResult")
  /\ ret.status = "returned"
  /\ Len(call.disclosures) = 1
  /\ Len(call.pdf_urls) = 2
  /\ \E j \in DOMAIN ret.value.pdf_urls :
       \A i \in DOMAIN call.disclosures :
         call.disclosures[i].pdf_url # ret.value.pdf_urls[j]

\* the two records agree on code, disclosure_date, pdf_url and time
SameKeyFields(a, b) ==
  /\ a.code = b.code
  /\ a.disclosure_date = b.disclosure_date
  /\ a.pdf_url = b.pdf_url
  /\ a.time = b.time

\* C15: the id is a function of (code, disclosure_date, pdf_url, time) and of
\* nothing else: records that agree on the four have the same id whatever
\* their other fields, records that differ in one of the four have different
\* ids (the digest taken as injective).
C15_IdOfKeyFields ==
  CallEnded("id") =>
    LET a == TdnetDisclosure(call.first)
        b == TdnetDisclosure(call.second)
    IN  /\ ret.status = "returned"
        /\ SameKeyFields(a, b) => ret.value[1] = ret.value[2]
        /\ ~SameKeyFields(a, b) => ret.value[1] # ret.value[2]

\* two records that agree on the four fields and on no other field, the
\* address of the one written with another host spelling
C15_Witness ==
  /\ CallEnded("id")
  /\ ret.value[1] = ret.value[2]
  /\ call.first[F_name] # call.second[F_name]
  /\ call.first[F_title] # call.second[F_title]
  /\ call.first[F_place] # call.second[F_place]
  /\ call.first[F_pdf_url] # call.second[F_pdf_url]
  /\ F_xbrl_url \in DOMAIN call.first
  /\ F_xbrl_url \notin DOMAIN call.second

\* the decimal digit n
DigitChar(n) ==
  CASE n = 0 -> "0" [] n = 1 -> "1" [] n = 2 -> "2" [] n = 3 -> "3" [] n = 4 -> "4"
    [] n = 5 -> "5" [] n = 6 -> "6" [] n = 7 -> "7" [] n = 8 -> "8" [] n = 9 -> "9"

\* n written with three digits, with four from 1000 on
ThreeDigits(n) ==
  (IF n >= 1000 THEN <<DigitChar(n \div 1000)>> ELSE <<>>)
    \o <<DigitChar((n \div 100) % 10), DigitChar((n \div 10) % 10), DigitChar(n % 10)>>

\* d written YYYYMMDD
EightDigits(d) ==
  <<DigitChar(d.year \div 1000), DigitChar((d.year \div 100) % 10),
    DigitChar((d.year \div 10) % 10), DigitChar(d.year % 10),
    DigitChar(d.month \div 10), DigitChar(d.month % 10),
    DigitChar(d.day \div 10), DigitChar(d.day % 10)>>

\* the value of a decimal digit
DigitValue(c) == CHOOSE n \in 0..9 : DigitChar(n) = c

RECURSIVE Decimal(_)
\* the number a string of digits writes
Decimal(digits) ==
  IF digits = <<>> THEN 0
  ELSE 10 * Decimal(SubSeq(digits, 1, Len(digits) - 1)) + DigitValue(digits[Len(digits)])

\* the page number read back from an address: the digits between
\* "/inbs/I_list_" and "_YYYYMMDD.html"
PageOfAddress(url) ==
  Decimal(SubSeq(url, Len(BASE_URL) + 14, Len(url) - 14))

\* C17: the address of page p of date d is
\* base/inbs/I_list_{p in three digits}_{d as YYYYMMDD}.html (I_list_001_ for
\* page 1); it is determined by (d, p), and the page number can be read back
\* from it, so different pages of a date have different addresses.
C17_PageAddress ==
  CallEnded("_build_page_url") =>
    /\ ret.status = "returned"
    /\ ret.value = BASE_URL \o <<"/", "i", "n", "b", "s", "/", "I", "_", "l", "i", "s", "t", "_">>
                      \o ThreeDigits(call.page) \o <<"_">> \o EightDigits(call.date)
                      \o <<".", "h", "t", "m", "l">>
    /\ PageOfAddress(ret.value) = call.page
    /\ call.page = 1 =>
         SubSeq(ret.value, Len(BASE_URL) + 1, Len(BASE_URL) + 17)
           = <<"/", "i", "n", "b", "s", "/", "I", "_", "l", "i", "s", "t", "_", "0", "0", "1", "_">>

\* the address of page 12 of 5 January 2025
C17_Witness ==
  /\ CallEnded("_build_page_url")
  /\ call.page = 12
  /\ call.date = Date(2025, 1, 5)
  /\ SubSeq(ret.value, Len(BASE_URL) + 14, Len(ret.value))
       = <<"0", "1", "2", "_", "2", "0", "2", "5", "0", "1", "0", "5", ".", "h", "t", "m", "l">>

\* what each onclick attribute is expected to signal
ExpectedSignal(onclick) ==
  CASE onclick = None -> FALSE
    [] onclick = <<>> -> FALSE
    [] onclick = ONCLICK_NEXT -> TRUE
    [] onclick = ONCLICK_OTHER -> FALSE
    [] onclick = ONCLICK_NO_HTML -> FALSE
    [] onclick = ONCLICK_NO_LIST -> FALSE
    [] onclick = ONCLICK_REVERSED -> TRUE

\* C16: has_next_page is true exactly when the page's pager-R element (the one
\* soup.find gives: the first) has an onclick attribute that contains both
\* I_list_ and .html; it is false without the element, without the attribute,
\* and when the attribute lacks one of the two.
C16_HasNextPage ==
  CallEnded("has_next_page") =>
    /\ ret.status = "returned"
    /\ ret.value <=> PagerSignal(call.soup)
    /\ call.soup.pagers = <<>> => ~ret.value
    /\ call.soup.pagers # <<>> =>
         (ret.value <=> ExpectedSignal(call.soup.pagers[1].onclick))

\* the attribute names the listing file but no ".html"
C16_Witness ==
  /\ CallEnded("has_next_page")
  /\ call.soup.pagers = <<Div(ONCLICK_NO_HTML)>>
  /\ ~ret.value

(***************************************************************************)
(* The end-to-end scenario.                                                 *)
(***************************************************************************)
\* the classes of the cells of a row, cell by cell
ClassesOf(cells) == [i \in DOMAIN cells |-> cells[i].class]

\* a tagged well-formed row: time, code, company, title, XBRL, place and
\* history cells in the columns of the site, with a time, a code and a
\* document link in the title cell
WellFormedRow(cells) ==
  /\ \/ ClassesOf(cells) = <<<<KJ_TIME>>, <<KJ_CODE>>, <<KJ_COMPANY>>, <<KJ_TITLE>>,
                             <<KJ_XBRL>>, <<KJ_PLACE>>, <<KJ_HISTROY>>>>
     \/ ClassesOf(cells) = <<<<KJ_TIME>>, <<KJ_CODE>>, <<KJ_NAME>>, <<KJ_TITLE>>,
                             <<KJ_XBRL>>, <<KJ_PLACE>>, <<KJ_HISTROY>>>>
  /\ DisclosureTime(cells[1].text)
  /\ CompanyCode(cells[2].text)
  /\ Len(cells[4].links) = 1
  /\ EndsWith(cells[4].links[1].href, EXT_PDF)
  /\ HttpUrlValid(urljoin(BASE_URL, cells[4].links[1].href))

\* the address of the document a well-formed row links
PdfAddress(cells) == HttpUrlStr(urljoin(BASE_URL, cells[4].links[1].href))

\* the row carries a link to an archive file
CarriesZip(cells) ==
  \E i \in DOMAIN cells : \E j \in DOMAIN cells[i].links :
    cells[i].links[j].href # None /\ EndsWith(cells[i].links[j].href, EXT_ZIP)

\* page 1 of the scenario: extracted, its rows well-formed with pairwise
\* different documents, exactly one of them with an archive link
ScenarioPage(e) ==
  LET rows == e.response.soup.rows
  IN  /\ ProcessedPage(e)
      /\ \A i \in DOMAIN rows : WellFormedRow(RowCells[rows[i]])
      /\ \A i, j \in DOMAIN rows :
           i # j => PdfAddress(RowCells[rows[i]]) # PdfAddress(RowCells[rows[j]])
      /\ Cardinality({i \in DOMAIN rows : CarriesZip(RowCells[rows[i]])}) = 1

\* C11: when page 1 holds N well-formed rows with distinct documents, exactly
\* one with an archive link, and page 2 answers 404, the Result has
\* total_disclosures = N, N unique sorted pdf_urls and exactly one record
\* with xbrl_available, whose xbrl_url is set.
C11_EndToEndScenario ==
  (/\ Done
   /\ Len(fetched) = 2
   /\ ScenarioPage(fetched[1])
   /\ NotFound(fetched[2])) =>
    LET N == Len(fetched[1].response.soup.rows)
    IN  /\ Returned
        /\ result.total_disclosures = N
        /\ Len(result.pdf_urls) = N
        /\ Cardinality(ToSet(result.pdf_urls)) = N
        /\ StrictlyIncreasing(result.pdf_urls)
        /\ Cardinality({i \in DOMAIN result.disclosures :
                          result.disclosures[i].xbrl_available}) = 1
        /\ \A i \in DOMAIN result.disclosures :
             result.disclosures[i].xbrl_available =>
               result.disclosures[i].xbrl_url # None

(***************************************************************************)
(* Command line (tdnet/cli.py): run(argv).                                  *)
(***************************************************************************)
\* int(digits)
IntOf(digits) ==
  LET RECURSIVE Value(_)
      Value(n) == IF n = 0 THEN 0 ELSE 10 * Value(n - 1) + (Ord(digits[n]) - Ord("0"))
  IN  Value(Len(digits))

AllDigits(v) == \A i \in DOMAIN v : IsDigit(v[i])

\* calendar.monthrange: the days of month m of year y
DaysInMonth(y, m) ==
  IF m = 2
  THEN (IF (y % 4 = 0 /\ y % 100 # 0) \/ y % 400 = 0 THEN 29 ELSE 28)
  ELSE IF m \in {4, 6, 9, 11} THEN 30 ELSE 31

\* the positions of "-" in v
Dashes(v) == {i \in DOMAIN v : v[i] = "-"}

\* the three parts of v around its two "-"
DateParts(v) ==
  LET i == CHOOSE k \in Dashes(v) : \A l \in Dashes(v) : k <= l
      j == CHOOSE k \in Dashes(v) : \A l \in Dashes(v) : k >= l
  IN  [year  |-> SubSeq(v, 1, i - 1),
       month |-> SubSeq(v, i + 1, j - 1),
       day   |-> SubSeq(v, j + 1, Len(v))]

\* does datetime.strptime(v, "%Y-%m-%d") succeed: four digits, one or two
\* digits, one or two digits, naming a day of the calendar
StrptimeOk(v) ==
  /\ Cardinality(Dashes(v)) = 2
  /\ LET parts == DateParts(v)
     IN  /\ Len(parts.year) = 4 /\ AllDigits(parts.year)
         /\ Len(parts.month) \in {1, 2} /\ AllDigits(parts.month)
         /\ Len(parts.day) \in {1, 2} /\ AllDigits(parts.day)
         /\ IntOf(parts.year) >= 1
         /\ IntOf(parts.month) \in 1..12
         /\ IntOf(parts.day) >= 1
         /\ IntOf(parts.day) <= DaysInMonth(IntOf(parts.year), IntOf(parts.month))

\* datetime.strptime(v, "%Y-%m-%d").date()
Strptime(v) ==
  LET parts == DateParts(v)
  IN  Date(IntOf(parts.year), IntOf(parts.month), IntOf(parts.day))

ARG_DATE == <<"2", "0", "2", "5", "-", "1", "0", "-", "2", "1">>

ARG_DATE_SHORT == <<"2", "0", "2", "5", "-", "1", "-", "5">>

ARG_INVALID_DATE == <<"i", "n", "v", "a", "l", "i", "d", "-", "d", "a", "t", "e">>

ARG_SLASH_DATE == <<"2", "0", "2", "5", "/", "1", "0", "/", "2", "1">>

ARG_NO_SUCH_DAY == <<"2", "0", "2", "5", "-", "0", "2", "-", "3", "0">>

\* --date: left out, or one of these strings
DateArgs ==
  {NotGiven, Given(ARG_DATE), Given(ARG_DATE_SHORT), Given(ARG_INVALID_DATE),
   Given(ARG_SLASH_DATE), Given(ARG_NO_SUCH_DAY)}

\* choices of --output-format
OutputFormats == {"urls", "structured", "both"}

\* the command lines: with every choice of --output-format and one that is none
RunCalls ==
  {[fn |-> "run", date |-> d, output_format |-> f, json |-> j] :
     d \in DateArgs, f \in OutputFormats \cup {"csv"}, j \in BOOLEAN}

\* the site a command-line run meets
CliSite == [pool |-> {"A", "Shifted", "BadTime"}, max_rows |-> MaxCliRows]

InitCli ==
  /\ site = CliSite
  /\ call \in RunCalls
  /\ pc = "run"
  /\ ret = [status |-> "pending"]
  /\ target_date = NoDate
  /\ current_page = 0
  /\ all_found_urls = <<>>
  /\ all_structured_data = <<>>
  /\ fetched = <<>>
  /\ result = [status |-> "pending"]
  /\ log = <<>>
  /\ stdout = <<>>

\* parser.parse_args(argv) accepts the command line
ArgsOk == call.date.given /\ call.output_format \in OutputFormats

\* parser.parse_args(argv) rejects the command line: SystemExit(2)
RunUsageError ==
  /\ pc = "run"
  /\ ~ArgsOk
  /\ ret' = [status |-> "raised", error |-> "SystemExit", code |-> 2]
  /\ pc' = "exit"
  /\ UNCHANGED <<target_date, current_page, all_found_urls, all_structured_data,
                 fetched, result, site, call, log, stdout>>

\* strptime raises ValueError: return 1
RunInvalidDate ==
  /\ pc = "run"
  /\ ArgsOk
  /\ ~StrptimeOk(call.date.value)
  /\ log' = <<Msg("ERROR", "Invalid date format. Please use YYYY-MM-DD.")>>
  /\ ret' = [status |-> "returned", value |-> 1]
  /\ pc' = "exit"
  /\ UNCHANGED <<target_date, current_page, all_found_urls, all_structured_data,
                 fetched, result, site, call, stdout>>

\* the date parses: scrape_tdnet_by_date(target_date) is entered
RunScrape ==
  /\ pc = "run"
  /\ ArgsOk
  /\ StrptimeOk(call.date.value)
  /\ target_date' = Strptime(call.date.value)
  /\ log' = <<Msg("INFO", "Starting scrape for date")>>
  /\ current_page' = 1
  /\ pc' = "loop"
  /\ UNCHANGED <<all_found_urls, all_structured_data, fetched, result, site, call,
                 ret, stdout>>

NextCli ==
  \/ RunUsageError
  \/ RunInvalidDate
  \/ RunScrape
  \/ FetchNotFound
  \/ FetchFailed
  \/ NoData
  \/ LastPage
  \/ NextPage

SpecCli == InitCli /\ [][NextCli]_vars

(***************************************************************************)
(* Properties of the command line.                                          *)
(***************************************************************************)
\* run() has ended: by returning, or by SystemExit out of parse_args
RunEnded == call.fn = "run" /\ pc \in {"exit", "done"}

\* run() returned this exit status
RunReturned(code) == RunEnded /\ ret.status = "returned" /\ ret.value = code

\* the strings of DateArgs that name a day
ParseableDates == {ARG_DATE, ARG_DATE_SHORT}

\* the run met a date without disclosures: page 1 is not there, or has no
\* table, the no-data marker or no rows
NoDisclosuresThatDay ==
  /\ Len(fetched) = 1
  /\ NotFound(fetched[1]) \/ EmptyPage(fetched[1])

\* C18: run() returns a non-zero exit status only for a date that does not
\* parse and for a failure inside the crawl (the Result's validation raising
\* included); it returns 0 whenever the crawl returns a Result, in particular
\* a Result without disclosures for a date that has none.
C18_ExitStatus ==
  RunEnded =>
    /\ ret.status = "returned" => ret.value \in {0, 1}
    /\ RunReturned(1) <=>
         \/ call.date.given /\ call.output_format \in OutputFormats
              /\ call.date.value \notin ParseableDates
         \/ pc = "done" /\ result.status = "raised"
    /\ (pc = "done" /\ Returned) => RunReturned(0)
    /\ (pc = "done" /\ NoDisclosuresThatDay) =>
         /\ Returned
         /\ result.total_disclosures = 0
         /\ RunReturned(0)

\* a run for a date whose page 1 carries the no-data marker returned 0
C18_Witness ==
  /\ RunEnded
  /\ pc = "done"
  /\ NoDisclosuresThatDay
  /\ EmptyPage(fetched[1])
  /\ fetched[1].response.soup.marker
  /\ result.total_disclosures = 0
  /\ RunReturned(0)

\* the texts of the messages logged (main.py:14-18 shows every level from INFO up)
Messages == {log[i].text : i \in DOMAIN log}

\* the run reports that no data was found
ReportsNoData ==
  \/ "No data found for the date" \in Messages
  \/ "No data found for the specified date." \in Messages

\* the run reports a request error
ReportsRequestError == \E i \in DOMAIN log : log[i].level = "ERROR"

\* C19: the run tells a request error from no data: when page 1 fails
\* (transport failure or a status other than 404) the run reports a request
\* error and does not report "no data found"; when the date has no
\* disclosures it reports no data and no request error.
C19_RequestErrorNotNoData ==
  (RunEnded /\ pc = "done" /\ Len(fetched) = 1) =>
    /\ FetchFailure(fetched[1]) => ReportsRequestError /\ ~ReportsNoData
    /\ NoDisclosuresThatDay => ~ReportsRequestError

=============================================================================
